---- MODULE Spec2Model ----
(***************************************************************************)
(* Model of the proto_ls lexer (src/parser/scanner.rs), recursive descent   *)
(* parser (src/parser/mod.rs) and message loop on standard input           *)
(* (src/main.rs).                                                          *)
(*                                                                         *)
(* A byte is a one-character string; "NUL" stands for the byte 0x00 and    *)
(* "xFF" for the byte 0xFF (a byte that occurs in no valid UTF-8 text).    *)
(* Option<u8> is a sequence of length at most one: <<>> is None and <<b>>  *)
(* is Some(b).  Vec<u8> is a sequence of bytes.                            *)
(***************************************************************************)
EXTENDS Integers, Sequences, FiniteSets, TLC

VARIABLES
    input,      \* the bytes of the underlying source (never changes)
    reader,     \* Scanner.reader: the bytes not yet read from the source
    buffer,     \* Scanner.buffer: the lookahead buffer
    done,       \* Scanner.done
    pc,         \* position of the caller: idle, toplevel, returned, panicked
    op,         \* the last operation called on the scanner
    pre,        \* the bytes pending (buffer then reader) before that call
    ret,        \* what that call returned
    doc,        \* scan_file's locals: the Document under construction
    result,     \* what scan_file, or handle_io, returned to its caller
    stdin,      \* handle_io: the bytes not yet taken from standard input
    bufreader,  \* handle_io: the bytes held by the BufReader around stdin
    parsing_headers,    \* handle_io's local of that name
    headers,    \* handle_io's HashMap, a set of <<key, value>>
    delivered   \* the contents handle_io has passed to parse_content

scanVars == <<reader, buffer, done, doc>>

ioVars == <<stdin, bufreader, parsing_headers, headers, delivered>>

vars ==
    <<input, reader, buffer, done, pc, op, pre, ret, doc, result, stdin,
      bufreader, parsing_headers, headers, delivered>>

(***************************************************************************)
(* Bytes                                                                   *)
(***************************************************************************)
Lower == {"a","b","c","d","e","f","g","h","i","j","k","l","m",
          "n","o","p","q","r","s","t","u","v","w","x","y","z"}

Upper == {"A","B","C","D","E","F","G","H","I","J","K","L","M",
          "N","O","P","Q","R","S","T","U","V","W","X","Y","Z"}

Letters == Lower \cup Upper

Digits == {"0","1","2","3","4","5","6","7","8","9"}

NonZeroDigits == Digits \ {"0"}

IdentChars == Letters \cup Digits \cup {"_"}

Whitespace == {" ", "\r", "\n", "\t"}

Quotes == {"\"", "'"}

DigitVal(c) ==
    CASE c = "0" -> 0 [] c = "1" -> 1 [] c = "2" -> 2 [] c = "3" -> 3
      [] c = "4" -> 4 [] c = "5" -> 5 [] c = "6" -> 6 [] c = "7" -> 7
      [] c = "8" -> 8 [] c = "9" -> 9

\* String::from_utf8 succeeds: of the bytes of this model only 0xFF is not
\* ASCII, and 0xFF occurs in no valid UTF-8 sequence.
Utf8Valid(bytes) == \A i \in 1..Len(bytes) : bytes[i] # "xFF"

(***************************************************************************)
(* Byte cursor: read_n, load_buffer, peek, pop.  A scanner value is the    *)
(* record [reader, buffer, done].  A function whose body uses the result   *)
(* of a call several times is written as the call passed to an operator    *)
(* that takes the result as a parameter.                                   *)
(***************************************************************************)
\* A place of the source where reading fails stands in the reader as the
\* element "EIO": a read that comes to it returns Err, and so does every
\* later read (the source stays broken).
FirstFailure(rd) ==
    CHOOSE i \in 1..Len(rd) :
        rd[i] = "EIO" /\ \A j \in 1..(i - 1) : rd[j] # "EIO"

\* read_n: take n bytes from the reader; when the read fails, or when fewer
\* than n bytes are left, it is an error and the bytes that were read are
\* dropped with the local buffer.
read_n(rd, n) ==
    IF \E i \in 1..n : i <= Len(rd) /\ rd[i] = "EIO"
    THEN [ok |-> FALSE, bytes |-> <<>>,
          rd |-> SubSeq(rd, FirstFailure(rd), Len(rd))]
    ELSE IF Len(rd) >= n
    THEN [ok |-> TRUE, bytes |-> SubSeq(rd, 1, n),
          rd |-> SubSeq(rd, n + 1, Len(rd))]
    ELSE [ok |-> FALSE, bytes |-> <<>>, rd |-> <<>>]

\* append_buffer after its call of read_n
AppendRead(s, r) ==
    [ok |-> r.ok,
     s  |-> [s EXCEPT !.reader = r.rd, !.buffer = s.buffer \o r.bytes]]

append_buffer(s, n) == AppendRead(s, read_n(s.reader, n))

load_buffer(s, n) ==
    IF s.buffer # <<>> THEN [ok |-> FALSE, s |-> s] ELSE append_buffer(s, n)

\* peek after the buffer was loaded: self.buffer.borrow().first()
PeekFirst(s) ==
    [val |-> IF s.buffer = <<>> THEN <<>> ELSE <<s.buffer[1]>>, s |-> s]

\* peek that loads two bytes into an empty buffer
peek_LoadTwo(s) == PeekFirst(IF s.buffer = <<>> THEN load_buffer(s, 2).s ELSE s)

\* peek: [val |-> Option<u8>, s |-> the scanner afterwards]
peek(s) == PeekFirst(IF s.buffer = <<>> THEN load_buffer(s, 1).s ELSE s)

\* PopPeeked that leaves the byte peek has loaded in the buffer
PopPeeked_KeepBuffer(p) == [val |-> p.val # <<>>, s |-> p.s]

\* pop on an empty buffer, after its call of peek
PopPeeked(p) == [val |-> p.val # <<>>, s |-> [p.s EXCEPT !.buffer = <<>>]]

\* pop: [val |-> TRUE for Some(()), s |-> the scanner afterwards]
pop(s) ==
    IF s.buffer = <<>> THEN PopPeeked(peek(s))
    ELSE [val |-> TRUE, s |-> [s EXCEPT !.buffer = Tail(s.buffer)]]

is_done(s) == s.done

(***************************************************************************)
(* Byte loops.  A predicate on bytes is given as a set and a polarity:     *)
(* Holds(c, set, TRUE) is c \in set, Holds(c, set, FALSE) is c \notin set. *)
(***************************************************************************)
Holds(c, set, pos) == IF pos THEN c \in set ELSE c \notin set

\* the loop shared by scan, take_until_consume and take_until: pop bytes
\* while the predicate holds; eof tells whether the loop ended on None.
RECURSIVE TakeLoop(_, _, _, _)
TakeStep(p, set, pos, acc) ==
    IF p.val = <<>>
    THEN [val |-> acc, eof |-> TRUE, s |-> p.s]
    ELSE IF Holds(p.val[1], set, pos)
         THEN TakeLoop(pop(p.s).s, set, pos, Append(acc, p.val[1]))
         ELSE [val |-> acc, eof |-> FALSE, s |-> p.s]

TakeLoop(s, set, pos, acc) == TakeStep(peek(s), set, pos, acc)

\* scan: Option<Vec<u8>>, None is the empty sequence
ScanResult(r) == [val |-> r.val, s |-> r.s]

scan(s, set, pos) == ScanResult(TakeLoop(s, set, pos, <<>>))

TakeResult(r, include_eof) ==
    [ok |-> (~r.eof) \/ include_eof, val |-> r.val, s |-> r.s]

take_until_consume(s, set, pos, include_eof) ==
    TakeResult(TakeLoop(s, set, pos, <<>>), include_eof)

\* PopAfterTake that leaves the byte that failed the predicate in place
PopAfterTake_NoPop(r) == r

PopAfterTake(r) == IF r.ok THEN [r EXCEPT !.s = pop(r.s).s] ELSE r

take_until_consume_including(s, set, pos, include_eof) ==
    PopAfterTake(take_until_consume(s, set, pos, include_eof))

take_until(s, set, pos, include_eof) ==
    TakeResult(TakeLoop(s, set, pos, <<>>), include_eof)

whitespace(s) == take_until(s, Whitespace, TRUE, TRUE).s

(***************************************************************************)
(* Lexical productions                                                     *)
(***************************************************************************)
IdentStart(p) ==
    IF p.val # <<>> /\ p.val[1] \notin Letters
    THEN [val |-> <<>>, s |-> p.s]
    ELSE scan(p.s, IdentChars, TRUE)

ident(s) == IdentStart(peek(s))

DotPeeked(p) == [val |-> p.val = <<".">>, s |-> p.s]

dot(s) == DotPeeked(peek(s))

\* full_ident: [ok, val |-> the segments (<<>> is None), s]
RECURSIVE FullIdentLoop(_, _, _)
FullIdentDot(d, seq) ==
    IF d.val
    THEN FullIdentLoop(pop(d.s).s, seq, TRUE)
    ELSE [ok |-> TRUE, val |-> seq, s |-> d.s]

\* FullIdentSegment that puts each new segment in front of the others
FullIdentSegment_Prepend(id, seq, required) ==
    IF id.val # <<>>
    THEN FullIdentDot(dot(id.s), <<id.val>> \o seq)
    ELSE IF required
         THEN [ok |-> FALSE, val |-> <<>>, s |-> id.s]
         ELSE [ok |-> TRUE, val |-> seq, s |-> id.s]

FullIdentSegment(id, seq, required) ==
    IF id.val # <<>>
    THEN FullIdentDot(dot(id.s), Append(seq, id.val))
    ELSE IF required
         THEN [ok |-> FALSE, val |-> <<>>, s |-> id.s]
         ELSE [ok |-> TRUE, val |-> seq, s |-> id.s]

FullIdentLoop(s, seq, required) == FullIdentSegment(ident(s), seq, required)

full_ident(s) == FullIdentLoop(s, <<>>, FALSE)

IntStart(p) ==
    IF p.val # <<>> /\ p.val[1] \notin NonZeroDigits
    THEN [val |-> <<>>, s |-> p.s]
    ELSE scan(p.s, Digits, TRUE)

int_literal(s) == IntStart(peek(s))

\* the bytes that stop take_until_consume inside a string literal
StringStop(open_char) == {open_char, "\\"}

\* the while loop of string_literal: buf holds the bytes taken so far
RECURSIVE StringLoop(_, _, _)
StringTaken(t, open_char, buf) ==
    IF ~t.ok
    THEN [ok |-> FALSE, val |-> <<>>, s |-> t.s]
    ELSE StringLoop(t.s, open_char, buf \o t.val)

\* StringEscaped that keeps the backslash in the value
StringEscaped_KeepBackslash(q, open_char, buf) ==
    IF q.val = <<>>
    THEN [ok |-> FALSE, val |-> <<>>, s |-> q.s]
    ELSE StringTaken(take_until_consume(pop(q.s).s, StringStop(open_char),
                                        FALSE, FALSE),
                     open_char, Append(Append(buf, "\\"), q.val[1]))

StringEscaped(q, open_char, buf) ==
    IF q.val = <<>>
    THEN [ok |-> FALSE, val |-> <<>>, s |-> q.s]
    ELSE StringTaken(take_until_consume(pop(q.s).s, StringStop(open_char),
                                        FALSE, FALSE),
                     open_char, Append(buf, q.val[1]))

StringPeeked(p, open_char, buf) ==
    IF p.val = <<>> \/ p.val # <<"\\">>
    THEN [ok |-> TRUE, val |-> buf, s |-> pop(p.s).s]
    ELSE StringEscaped(peek(pop(p.s).s), open_char, buf)

StringLoop(s, open_char, buf) == StringPeeked(peek(s), open_char, buf)

string_literal(s, open_char) ==
    StringTaken(take_until_consume(s, StringStop(open_char), FALSE, FALSE),
                open_char, <<>>)

StringOpened(r) == [some |-> TRUE, ok |-> r.ok, val |-> r.val, s |-> r.s]

StringStart(p) ==
    IF p.val # <<>> /\ p.val[1] \in Quotes
    THEN StringOpened(string_literal(pop(p.s).s, p.val[1]))
    ELSE [some |-> FALSE, ok |-> FALSE, val |-> <<>>, s |-> p.s]

\* string: [some |-> a literal was opened, ok, val, s]
string(s) == StringStart(peek(s))

(***************************************************************************)
(* Tokens (ProtoToken).  Every token is a record [kind, val]; val is the   *)
(* payload: bytes, segments or a number, and <<>> for a token without one. *)
(* NoneTok is Iterator::next returning None, PanicTok is the call          *)
(* unwinding with a panic instead of returning.                            *)
(***************************************************************************)
Tok(kind, val) == [kind |-> kind, val |-> val]

Kw(kind) == Tok(kind, <<>>)

NoneTok == Kw("None")

PanicTok == Kw("Panic")

TokEq(a, b) == a.kind = b.kind /\ a.val = b.val

\* the keyword table of Scanner::next
KeywordWords ==
    {<<"s","y","n","t","a","x">>,
     <<"p","a","c","k","a","g","e">>,
     <<"o","p","t","i","o","n">>,
     <<"i","m","p","o","r","t">>,
     <<"m","e","s","s","a","g","e">>,
     <<"s","e","r","v","i","c","e">>,
     <<"e","n","u","m">>,
     <<"o","n","e","o","f">>,
     <<"r","e","p","e","a","t","e","d">>,
     <<"w","e","a","k">>,
     <<"p","u","b","l","i","c">>,
     <<"r","e","s","e","r","v","e","d">>,
     <<"e","x","t","e","n","d">>,
     <<"e","x","t","e","n","s","i","o","n","s">>,
     <<"t","o">>,
     <<"m","a","x">>,
     <<"m","a","p">>}

KeywordKind(name) ==
    CASE name = <<"s","y","n","t","a","x">> -> "Syntax"
      [] name = <<"p","a","c","k","a","g","e">> -> "Package"
      [] name = <<"o","p","t","i","o","n">> -> "Option"
      [] name = <<"i","m","p","o","r","t">> -> "Import"
      [] name = <<"m","e","s","s","a","g","e">> -> "Message"
      [] name = <<"s","e","r","v","i","c","e">> -> "Service"
      [] name = <<"e","n","u","m">> -> "Enum"
      [] name = <<"o","n","e","o","f">> -> "OneOf"
      [] name = <<"r","e","p","e","a","t","e","d">> -> "Repeated"
      [] name = <<"w","e","a","k">> -> "Weak"
      [] name = <<"p","u","b","l","i","c">> -> "Public"
      [] name = <<"r","e","s","e","r","v","e","d">> -> "Reserved"
      [] name = <<"e","x","t","e","n","d">> -> "Extend"
      [] name = <<"e","x","t","e","n","s","i","o","n","s">> -> "Extensions"
      [] name = <<"t","o">> -> "To"
      [] name = <<"m","a","x">> -> "Max"
      [] name = <<"m","a","p">> -> "Map"

\* the match on name_string: a keyword token or Identifier(name)
KeywordOrIdentifier(name) ==
    IF name \in KeywordWords THEN Kw(KeywordKind(name))
    ELSE Tok("Identifier", name)

Punctuation == {";", "=", "{", "}", "(", ")", "[", "]", ":", "<", ">", ","}

PunctuationKind(c) ==
    CASE c = ";" -> "SemiColon"   [] c = "=" -> "Equals"
      [] c = "{" -> "OpenBracket" [] c = "}" -> "CloseBracket"
      [] c = "(" -> "OpenParen"   [] c = ")" -> "CloseParen"
      [] c = "[" -> "OpenBrace"   [] c = "]" -> "CloseBrace"
      [] c = ":" -> "Colon"       [] c = "<" -> "LessThan"
      [] c = ">" -> "GreaterThan" [] c = "," -> "Comma"

(***************************************************************************)
(* str::parse for the payload of IntLiteral, an isize of 64 bits.  A run   *)
(* of at most nine digits is kept as a number, since the integers of the   *)
(* model checker have 32 bits; a longer run that still fits the isize is   *)
(* kept as Wide(digits).                                                   *)
(***************************************************************************)
IsizeMaxDigits ==
    <<"9","2","2","3","3","7","2","0","3","6","8","5","4","7","7","5","8","0","7">>

RECURSIVE DigitsLeq(_, _)
DigitsLeq(a, b) ==
    IF a = <<>> THEN TRUE
    ELSE IF DigitVal(Head(a)) # DigitVal(Head(b))
         THEN DigitVal(Head(a)) < DigitVal(Head(b))
         ELSE DigitsLeq(Tail(a), Tail(b))

\* the digits start with 1-9, so a shorter run is a smaller number
FitsIsize(ds) ==
    \/ Len(ds) < Len(IsizeMaxDigits)
    \/ Len(ds) = Len(IsizeMaxDigits) /\ DigitsLeq(ds, IsizeMaxDigits)

RECURSIVE Decimal(_)
Decimal(ds) ==
    IF ds = <<>> THEN 0
    ELSE 10 * Decimal(SubSeq(ds, 1, Len(ds) - 1)) + DigitVal(ds[Len(ds)])

\* an isize value: the number n, or a number of at least 10^9 that is kept
\* as the digits it was written with
Small(n) == [n |-> n, wide |-> <<>>]

Wide(ds) == [n |-> 0, wide |-> ds]

parse_isize(ds) ==
    [ok  |-> FitsIsize(ds),
     val |-> IF Len(ds) <= 9 THEN Small(Decimal(ds)) ELSE Wide(ds)]

(***************************************************************************)
(* Scanner::next.  The result is [tok, s]: the token returned (NoneTok for *)
(* None, PanicTok for a panic) and the scanner afterwards.                 *)
(***************************************************************************)
Return(tok, s) == [tok |-> tok, s |-> s]

\* the loop of the block comment branch, after "/*" has been popped
RECURSIVE BlockCommentLoop(_, _)
\* BlockStar that drops an asterisk that no slash follows
BlockStar_DropStar(q, buf) ==
    IF q.val = <<>> THEN Return(PanicTok, q.s)
    ELSE IF q.val[1] = "/" THEN Return(Tok("Comment", buf), pop(q.s).s)
    ELSE BlockCommentLoop(q.s, buf)

BlockStar(q, buf) ==
    IF q.val = <<>> THEN Return(PanicTok, q.s)
    ELSE IF q.val[1] = "/" THEN Return(Tok("Comment", buf), pop(q.s).s)
    ELSE BlockCommentLoop(q.s, buf \o <<"*">>)

BlockTaken(t, buf) ==
    IF ~t.ok THEN Return(PanicTok, t.s)
    ELSE BlockStar(peek(pop(t.s).s), buf \o t.val)

BlockCommentLoop(s, buf) ==
    BlockTaken(take_until_consume(s, {"*"}, FALSE, FALSE), buf)

\* the bytes that end a line comment
LineCommentEnd == {"\n", "NUL"}

LineComment(t) ==
    Return(IF t.ok THEN Tok("Comment", t.val) ELSE PanicTok, t.s)

\* the branch of the final match for the byte '/', after it was popped
SlashBranch(q) ==
    IF q.val = <<>> THEN Return(NoneTok, q.s)
    ELSE IF q.val[1] = "/"
         THEN LineComment(take_until_consume_including(pop(q.s).s,
                              LineCommentEnd, FALSE, TRUE))
    ELSE IF q.val[1] = "*" THEN BlockCommentLoop(pop(q.s).s, <<>>)
    ELSE Return(NoneTok, q.s)

\* PunctuationBranch that pops the byte that starts no token
PunctuationBranch_PopOther(p) ==
    IF p.val = <<>> THEN Return(NoneTok, p.s)
    ELSE IF p.val[1] \in Punctuation
         THEN Return(Kw(PunctuationKind(p.val[1])), pop(p.s).s)
    ELSE IF p.val[1] = "/" THEN SlashBranch(peek(pop(p.s).s))
    ELSE Return(NoneTok, pop(p.s).s)

\* PunctuationBranch that returns the token of a punctuation byte and leaves
\* the byte unread
PunctuationBranch_NoPop(p) ==
    IF p.val = <<>> THEN Return(NoneTok, p.s)
    ELSE IF p.val[1] \in Punctuation
         THEN Return(Kw(PunctuationKind(p.val[1])), p.s)
    ELSE IF p.val[1] = "/" THEN SlashBranch(peek(pop(p.s).s))
    ELSE Return(NoneTok, p.s)

\* the final match on the peeked byte: punctuation, comments, anything else
PunctuationBranch(p) ==
    IF p.val = <<>> THEN Return(NoneTok, p.s)
    ELSE IF p.val[1] \in Punctuation
         THEN Return(Kw(PunctuationKind(p.val[1])), pop(p.s).s)
    ELSE IF p.val[1] = "/" THEN SlashBranch(peek(pop(p.s).s))
    ELSE Return(NoneTok, p.s)

IntToken(n, s) ==
    Return(IF n.ok THEN Tok("IntLiteral", n.val) ELSE PanicTok, s)

IntBranch(i) ==
    IF i.val # <<>> THEN IntToken(parse_isize(i.val), i.s)
    ELSE PunctuationBranch(peek(i.s))

StringBranch(st) ==
    IF st.some
    THEN Return(IF ~st.ok THEN NoneTok
                ELSE IF Utf8Valid(st.val) THEN Tok("StringLiteral", st.val)
                ELSE PanicTok,
                st.s)
    ELSE IntBranch(int_literal(st.s))

\* IdentToken without the test of name.len(): the first segment decides
IdentToken_FirstSegment(name) == KeywordOrIdentifier(name[1])

\* the token made of the segments full_ident returned
IdentToken(name) ==
    IF Len(name) = 1 THEN KeywordOrIdentifier(name[1])
    ELSE Tok("FullIdentifier", name)

IdentBranch(f) ==
    IF f.ok /\ f.val # <<>> THEN Return(IdentToken(f.val), f.s)
    ELSE StringBranch(string(f.s))

NextAfterWhitespace(s) ==
    IF is_done(s) THEN Return(NoneTok, s) ELSE IdentBranch(full_ident(s))

next(s) == NextAfterWhitespace(whitespace(s))

(***************************************************************************)
(* Results of the parser's functions: [kind, val, s] where kind is "ok"    *)
(* (Ok(val)), "err" (Err, val is the message) or "panic", and s is the     *)
(* scanner afterwards.                                                     *)
(***************************************************************************)
Ok(v, s) == [kind |-> "ok", val |-> v, s |-> s]

Err(msg, s) == [kind |-> "err", val |-> msg, s |-> s]

Panic(s) == [kind |-> "panic", val |-> <<>>, s |-> s]

\* Scanner::expect
RECURSIVE expect(_, _)
\* ExpectGot that compares a comment with the wanted token like any other
ExpectGot_NoSkip(n, tkn) ==
    IF n.tok.kind = "Panic" THEN Panic(n.s)
    ELSE IF n.tok.kind = "None"
         THEN Err(<<"wanted", tkn.kind, "but received EOF">>, n.s)
    ELSE IF ~TokEq(tkn, n.tok)
         THEN Err(<<"wanted", tkn.kind, "but got", n.tok.kind>>, n.s)
    ELSE Ok(tkn, n.s)

ExpectGot(n, tkn) ==
    IF n.tok.kind = "Panic" THEN Panic(n.s)
    ELSE IF n.tok.kind = "None"
         THEN Err(<<"wanted", tkn.kind, "but received EOF">>, n.s)
    ELSE IF n.tok.kind = "Comment" THEN expect(n.s, tkn)
    ELSE IF ~TokEq(tkn, n.tok)
         THEN Err(<<"wanted", tkn.kind, "but got", n.tok.kind>>, n.s)
    ELSE Ok(tkn, n.s)

expect(s, tkn) == ExpectGot(next(s), tkn)

(***************************************************************************)
(* ProtoFieldType::from_token.  A field type is [kind, val]; the val of a  *)
(* Map is [key, value].                                                    *)
(***************************************************************************)
ScalarKinds == {"Bool", "String", "Bytes", "Float", "Double"}

FieldType(kind, val) == [kind |-> kind, val |-> val]

RECURSIVE from_token(_, _)
\* MapClose that takes the value type for the key and the key type for the
\* value
MapClose_Swapped(key, value, e) ==
    IF e.kind # "ok" THEN e
    ELSE Ok(FieldType("Map", [key |-> value, value |-> key]), e.s)

MapClose(key, value, e) ==
    IF e.kind # "ok" THEN e
    ELSE Ok(FieldType("Map", [key |-> key, value |-> value]), e.s)

MapValue(key, value) ==
    IF value.kind # "ok" THEN value
    ELSE MapClose(key, value.val, expect(value.s, Kw("GreaterThan")))

MapValueToken(key, n) ==
    IF n.tok.kind = "Panic" THEN Panic(n.s)
    ELSE IF n.tok.kind = "None" THEN Err(<<"">>, n.s)
    ELSE MapValue(key, from_token(n.tok, n.s))

MapComma(key, e) ==
    IF e.kind # "ok" THEN e ELSE MapValueToken(key, next(e.s))

MapKey(key) ==
    IF key.kind # "ok" THEN key
    ELSE MapComma(key.val, expect(key.s, Kw("Comma")))

MapKeyToken(n) ==
    IF n.tok.kind = "Panic" THEN Panic(n.s)
    ELSE IF n.tok.kind = "None" THEN Err(<<"">>, n.s)
    ELSE MapKey(from_token(n.tok, n.s))

MapOpen(e) == IF e.kind # "ok" THEN e ELSE MapKeyToken(next(e.s))

from_token(t, s) ==
    IF t.kind = "FullIdentifier" THEN Ok(FieldType("FullIdentifier", t.val), s)
    ELSE IF t.kind = "Identifier" THEN Ok(FieldType("Identifier", t.val), s)
    ELSE IF t.kind \in ScalarKinds THEN Ok(FieldType(t.kind, <<>>), s)
    ELSE IF t.kind = "Map" THEN MapOpen(expect(s, Kw("LessThan")))
    ELSE Err(<<"non proto field type", t.kind>>, s)

\* index.try_into() for the u16 field number; a Wide value is above 10^9
U16Max == 65535

try_into_u16(v) ==
    IF v.wide # <<>> THEN [ok |-> FALSE, val |-> 0]
    ELSE [ok |-> v.n >= 0 /\ v.n <= U16Max, val |-> v.n]

\* scan_message_field, one operator per statement
FieldMade(ty, name, idx, s) ==
    IF ~idx.ok THEN Err(<<"out of range integral type conversion">>, s)
    ELSE Ok([type |-> ty, name |-> name, index |-> idx.val], s)

FieldSemiColon(ty, name, index, e) ==
    IF e.kind # "ok" THEN e
    ELSE FieldMade(ty, name, try_into_u16(index), e.s)

FieldIndex(ty, name, n) ==
    IF n.tok.kind = "Panic" THEN Panic(n.s)
    ELSE IF n.tok.kind # "IntLiteral" THEN Err(<<"expected int literal">>, n.s)
    ELSE FieldSemiColon(ty, name, n.tok.val, expect(n.s, Kw("SemiColon")))

FieldEquals(ty, name, e) ==
    IF e.kind # "ok" THEN e ELSE FieldIndex(ty, name, next(e.s))

FieldName(ty, n) ==
    IF n.tok.kind = "Panic" THEN Panic(n.s)
    ELSE IF n.tok.kind # "Identifier"
         THEN Err(<<"expected identifier/type">>, n.s)
    ELSE FieldEquals(ty, n.tok.val, expect(n.s, Kw("Equals")))

FieldTyped(ty) == IF ty.kind # "ok" THEN ty ELSE FieldName(ty.val, next(ty.s))

scan_message_field(s, first_token) == FieldTyped(from_token(first_token, s))

\* scan_message and its while loop
RECURSIVE scan_message(_)
RECURSIVE MessageLoop(_, _, _, _)
\* MessageNested that puts each nested message in front of the others
MessageNested_Prepend(m, name, fields, messages) ==
    IF m.kind # "ok" THEN m
    ELSE MessageLoop(m.s, name, fields, <<m.val>> \o messages)

MessageNested(m, name, fields, messages) ==
    IF m.kind # "ok" THEN m
    ELSE MessageLoop(m.s, name, fields, Append(messages, m.val))

MessageField(f, name, fields, messages) ==
    IF f.kind # "ok" THEN f
    ELSE MessageLoop(f.s, name, Append(fields, f.val), messages)

MessageToken(n, name, fields, messages) ==
    IF n.tok.kind = "Panic" THEN Panic(n.s)
    ELSE IF n.tok.kind \in {"None", "CloseBracket"}
         THEN Ok([name |-> name, fields |-> fields, messages |-> messages],
                 n.s)
    ELSE IF n.tok.kind = "Message"
         THEN MessageNested(scan_message(n.s), name, fields, messages)
    ELSE MessageField(scan_message_field(n.s, n.tok), name, fields, messages)

MessageLoop(s, name, fields, messages) ==
    MessageToken(next(s), name, fields, messages)

MessageOpen(name, e) ==
    IF e.kind # "ok" THEN e ELSE MessageLoop(e.s, name, <<>>, <<>>)

MessageName(n) ==
    IF n.tok.kind = "Panic" THEN Panic(n.s)
    ELSE IF n.tok.kind # "Identifier" THEN Err(<<"expected identifier">>, n.s)
    ELSE MessageOpen(n.tok.val, expect(n.s, Kw("OpenBracket")))

scan_message(s) == MessageName(next(s))

\* todo!()
scan_service(s) == Panic(s)

W_proto2 == <<"p","r","o","t","o","2">>

W_proto3 == <<"p","r","o","t","o","3">>

\* scan_syntax, one operator per statement
SyntaxSemiColon(syntax, e) == IF e.kind # "ok" THEN e ELSE Ok(syntax, e.s)

\* SyntaxLiteral that takes every literal other than proto2 for proto3
SyntaxLiteral_AnyValue(n) ==
    IF n.tok.kind = "Panic" THEN Panic(n.s)
    ELSE IF n.tok.kind # "StringLiteral"
         THEN Err(<<"expected string literal">>, n.s)
    ELSE IF n.tok.val = W_proto2
         THEN SyntaxSemiColon("Proto2", expect(n.s, Kw("SemiColon")))
    ELSE SyntaxSemiColon("Proto3", expect(n.s, Kw("SemiColon")))

SyntaxLiteral(n) ==
    IF n.tok.kind = "Panic" THEN Panic(n.s)
    ELSE IF n.tok.kind # "StringLiteral"
         THEN Err(<<"expected string literal">>, n.s)
    ELSE IF n.tok.val = W_proto3
         THEN SyntaxSemiColon("Proto3", expect(n.s, Kw("SemiColon")))
    ELSE IF n.tok.val = W_proto2
         THEN SyntaxSemiColon("Proto2", expect(n.s, Kw("SemiColon")))
    ELSE Err(<<"expected a syntax of either 'proto3' or 'proto2'">>, n.s)

SyntaxEquals(e) == IF e.kind # "ok" THEN e ELSE SyntaxLiteral(next(e.s))

SyntaxKeyword(e) ==
    IF e.kind # "ok" THEN e ELSE SyntaxEquals(expect(e.s, Kw("Equals")))

scan_syntax(s) == SyntaxKeyword(expect(s, Kw("Syntax")))

\* scan_import, one operator per statement
ImportSemiColon(ty, path, e) ==
    IF e.kind # "ok" THEN e ELSE Ok([type |-> ty, path |-> path], e.s)

ImportPath(ty, n) ==
    IF n.tok.kind = "Panic" THEN Panic(n.s)
    ELSE IF n.tok.kind = "None"
         THEN Err(<<"expected a string literal to import">>, n.s)
    ELSE IF n.tok.kind # "StringLiteral"
         THEN Err(<<"expected string literal">>, n.s)
    ELSE ImportSemiColon(ty, n.tok.val, expect(n.s, Kw("SemiColon")))

ImportFirst(n) ==
    IF n.tok.kind = "Panic" THEN Panic(n.s)
    ELSE IF n.tok.kind = "None"
         THEN Err(<<"expected either 'public', 'weak' or a string literal after 'import'">>,
                  n.s)
    ELSE IF n.tok.kind = "Public" THEN ImportPath("Public", next(n.s))
    ELSE IF n.tok.kind = "Weak" THEN ImportPath("Weak", next(n.s))
    ELSE ImportPath("Default", n)

scan_import(s) == ImportFirst(next(s))

\* scan_package, one operator per statement
PackageSemiColon(pkg, e) == IF e.kind # "ok" THEN e ELSE Ok(pkg, e.s)

PackageName(n) ==
    IF n.tok.kind = "Panic" THEN Panic(n.s)
    ELSE IF n.tok.kind # "FullIdentifier"
         THEN Err(<<"expected identifier">>, n.s)
    ELSE PackageSemiColon(n.tok.val, expect(n.s, Kw("SemiColon")))

scan_package(s) == PackageName(next(s))

\* scan_option, one operator per statement
OptionSemiColon(name, value, e) ==
    IF e.kind # "ok" THEN e ELSE Ok([name |-> name, value |-> value], e.s)

OptionValue(name, n) ==
    IF n.tok.kind = "Panic" THEN Panic(n.s)
    ELSE IF n.tok.kind # "StringLiteral"
         THEN Err(<<"expected string literal">>, n.s)
    ELSE OptionSemiColon(name, n.tok.val, expect(n.s, Kw("SemiColon")))

OptionEquals(name, e) ==
    IF e.kind # "ok" THEN e ELSE OptionValue(name, next(e.s))

OptionName(n) ==
    IF n.tok.kind = "Panic" THEN Panic(n.s)
    ELSE IF n.tok.kind # "Identifier" THEN Err(<<"expected identifier">>, n.s)
    ELSE OptionEquals(n.tok.val, expect(n.s, Kw("Equals")))

scan_option(s) == OptionName(next(s))

(***************************************************************************)
(* Inputs.  The byte source of a run is drawn from bounded families: each  *)
(* family is the set of concatenations of at most a bounded number of      *)
(* atoms, so that the lexical and grammatical cases occur in it.           *)
(***************************************************************************)
RECURSIVE Concats(_, _)
Concats(atoms, n) ==
    IF n = 0 THEN {<<>>}
    ELSE {<<>>} \cup {a \o w : a \in atoms, w \in Concats(atoms, n - 1)}

MaxSuffix == 2

MaxIdentAtoms == 5

MaxIntAtoms == 4

MaxStrAtoms == 4

MaxCommentAtoms == 5

MaxFrags == 3

ScalarWords ==
    {<<"b","o","o","l">>, <<"s","t","r","i","n","g">>,
     <<"b","y","t","e","s">>, <<"f","l","o","a","t">>,
     <<"d","o","u","b","l","e">>}

OtherWords ==
    {<<"S","y","n","t","a","x">>, <<"M","A","P">>, <<"f","o","o">>,
     <<"m","a","p","s">>, <<"t">>, <<"i","n","t","3","2">>}

Words == KeywordWords \cup ScalarWords \cup OtherWords

SuffixAtoms == {<<".">>, <<".","t","o">>, <<" ">>, <<"x">>, <<";">>}

WordInputs == {w \o p : w \in Words, p \in Concats(SuffixAtoms, MaxSuffix)}

IdentAtoms == {<<"a","b">>, <<"c","_","1">>, <<".">>, <<"1">>, <<";">>}

IdentInputs == Concats(IdentAtoms, MaxIdentAtoms)

TenNines == <<"9","9","9","9","9","9","9","9","9","9">>

IntAtoms == {<<"1">>, <<"0">>, <<"-">>, <<"a">>, <<" ">>} \cup {TenNines}

IntInputs == Concats(IntAtoms, MaxIntAtoms)

StrAtoms == {<<"a">>, <<"\"">>, <<"'">>, <<"\\">>, <<"xFF">>}

StringInputs == {<<q>> \o w : q \in Quotes, w \in Concats(StrAtoms, MaxStrAtoms)}

CommentAtoms == {<<"/">>, <<"*">>, <<"a">>, <<"\n">>, <<"NUL">>}

CommentInputs == {<<"/">> \o w : w \in Concats(CommentAtoms, MaxCommentAtoms)}

\* documents: a syntax declaration followed by fragments of statements
Prelude ==
    <<"s", "y", "n", "t", "a", "x", " ", "=", " ", "\"", "p", "r", "o", "t",
    "o", "3", "\"", ";">>

DocFrags ==
    {<<" ", "p", "a", "c", "k", "a", "g", "e", " ", "a", ".", "b", ";">>,
     <<" ", "o", "p", "t", "i", "o", "n", " ", "o", " ", "=", " ", "\"",
      "v", "\"", ";">>,
     <<" ", "i", "m", "p", "o", "r", "t", " ", "p", "u", "b", "l", "i", "c",
      " ", "\"", "p", "\"", ";">>,
     <<" ", "m", "e", "s", "s", "a", "g", "e", " ", "M", " ", "{">>,
     <<" ", "s", "t", "r", "i", "n", "g", " ", "n", "a", "m", "e", " ", "=",
      " ", "1", ";">>,
     <<" ", "}">>,
     <<" ", "e", "n", "u", "m">>,
     <<" ", "s", "e", "r", "v", "i", "c", "e">>,
     <<" ", "s", "y", "n", "t", "a", "x">>,
     <<" ", "\"", "a", "b">>,
     <<" ", "/", "*", "c", "*", "/", "/", "*">>,
     <<" ", ";", " ", "/", "/", "c", "\n", " ", "7">>}

DocInputs == {Prelude \o w : w \in Concats(DocFrags, MaxFrags)}

\* the examples of the tests of scanner.rs and of the specification
ExampleDoc ==
    <<"s", "y", "n", "t", "a", "x", " ", "=", " ", "\"", "p", "r", "o", "t",
    "o", "3", "\"", ";", " ", "p", "a", "c", "k", "a", "g", "e", " ", "a",
    ".", "b", ";", " ", "m", "e", "s", "s", "a", "g", "e", " ", "M", " ",
    "{", " ", "s", "t", "r", "i", "n", "g", " ", "n", "a", "m", "e", " ",
    "=", " ", "1", ";", " ", "}">>

ExampleInputs ==
    {ExampleDoc,
     <<"f", "o", "o", ".", "b", "a", "r", ".", "b", "a", "z">>,
     <<"4", "2">>,
     <<"\"", "s", "t", "r", "i", "n", "g", "\"">>,
     <<"\"", "s", "t", "r", "\\", "\"", "i", "n", "g", "\"">>,
     <<"/", "/", "c", "o", "m", "m", "e", "n", "t", "\n">>,
     <<"/", "/", "c", "o", "m", "m", "e", "n", "t">>,
     <<"/", "*", "c", "o", "m", "m", "e", "n", "t", "*", "/">>,
     <<"/", "*", "c", "o", "m", "m", "*", "e", "n", "t", "*", "/">>,
     <<"/", "*", "c", "o", "m", "m", "\n", "e", "n", "t", "*", "/">>,
     <<"9", "2", "2", "3", "3", "7", "2", "0", "3", "6", "8", "5", "4", "7",
      "7", "5", "8", "0", "7">>,
     <<"9", "2", "2", "3", "3", "7", "2", "0", "3", "6", "8", "5", "4", "7",
      "7", "5", "8", "0", "8">>,
     <<"s", "y", "n", "t", "a", "x", " ", "=", " ", "\"", "p", "r", "o",
      "t", "o", "2", "\"", ";", " ", "m", "e", "s", "s", "a", "g", "e",
      " ", "M", " ", "{", " ", "x", " ", "y", " ", "=", " ", "9", "9", "9",
      "9", "9", "9", "9", "9", "9", "9", "9", "9", "9", "9", "9", "9", "9",
      "9", "9", "9", ";", " ", "}">>,
     <<"s", "y", "n", "t", "a", "x", " ", "=", " ", "\"", "p", "r", "o",
      "t", "o", "3", "\"", ";", " ", "i", "m", "p", "o", "r", "t", " ",
      "\"", "a", "\\">>,
     <<"s", "y", "n", "t", "a", "x", " ", "=", " ", "\"", "p", "r", "o",
      "t", "o", "3", "\"", ";", " ", "m", "e", "s", "s", "a", "g", "e",
      " ", "M", " ", "{", " ", "a", " ", "x", " ", "=", " ", "1", ";", " ",
      "b", " ", "y", " ", "=", " ", "1", ";", " ", "}">>}

\* syntax declarations: every choice of a keyword part, an equals part, a
\* literal part, a semicolon part and a rest
DeclKeywords ==
    {<<"s","y","n","t","a","x">>, <<>>, <<"S","y","n","t","a","x">>,
     <<"/","*","c","*","/","s","y","n","t","a","x">>,
     <<"/","/","c","\n"," ","s","y","n","t","a","x">>,
     <<"s","y","n","t","a","x",".">>, <<"p","a","c","k","a","g","e">>}

DeclEquals ==
    {<<" ","="," ">>, <<" ">>, <<"=","/","*","c","*","/">>,
     <<"/","*","c","*","/","=">>, <<" ","=","="," ">>}

DeclLiterals ==
    {<<"\"","p","r","o","t","o","3","\"">>,
     <<"'","p","r","o","t","o","2","'">>,
     <<"\"","p","r","o","t","o","4","\"">>,
     <<"\"","p","r","o","t","o","3","'">>, <<"p","r","o","t","o","3">>,
     <<"\"","p","r","\\","o","t","o","2","\"">>, <<"\"","\"">>}

DeclSemiColons ==
    {<<";">>, <<>>, <<" ","/","*","c","*","/"," ",";">>, <<" ",",">>,
     <<";",";">>}

DeclRests ==
    {<<>>, <<" ","p","a","c","k","a","g","e"," ","a",".","b",";">>,
     <<" ","7">>}

DeclInputs ==
    {k \o e \o l \o c \o r :
        k \in DeclKeywords, e \in DeclEquals, l \in DeclLiterals,
        c \in DeclSemiColons, r \in DeclRests}

\* comments and tokens in front of the token that expect is asked for
MaxExpectAtoms == 4

ExpectAtoms ==
    {<<"/","*","c","*","/">>, <<"/","/","c","\n">>, <<"=">>, <<";">>,
     <<"s","y","n","t","a","x"," ">>, <<"/","*">>}

ExpectInputs == Concats(ExpectAtoms, MaxExpectAtoms)

\* a message with one field whose type is written with the atoms of a map type
MaxMapAtoms == 5

MapAtoms ==
    {<<"m","a","p","<">>, <<"m","a","p"," ">>, <<"a">>, <<",">>, <<">">>,
     <<"m","a","p","<","a",",","b",">">>}

MapHead == Prelude \o <<" ","m","e","s","s","a","g","e"," ","M"," ","{"," ">>

MapTail == <<" ","x"," ","="," ","1",";"," ","}">>

MapInputs == {MapHead \o t \o MapTail : t \in Concats(MapAtoms, MaxMapAtoms)}

\* sources whose read fails: a document up to one of its positions, then the
\* failure
ReadFailDocs ==
    {ExampleDoc,
     Prelude \o <<" ", "i", "m", "p", "o", "r", "t", " ", "\"", "p", "\"", ";">>}

ReadFailInputs ==
    UNION {{SubSeq(d, 1, k) \o <<"EIO">> : k \in 0..Len(d)} :
               d \in ReadFailDocs}

\* package statements: a name, what stands between the name and the
\* semicolon, and a rest
PackageHead == Prelude \o <<" ","p","a","c","k","a","g","e"," ">>

PackageNames ==
    {<<"f","o","o">>, <<"a",".","b">>, <<"a",".","b",".","c">>, <<"a">>,
     <<"a",".">>, <<"m","a","p">>, <<"a",".","t","o">>,
     <<"x","_","1",".","y","2">>, <<"1">>, <<>>}

PackageGaps == {<<>>, <<" ">>, <<".">>}

PackageRests ==
    {<<";">>, <<>>, <<";"," ",";">>,
     <<";"," ","p","a","c","k","a","g","e"," ","c",".","d",";">>}

PackageInputs ==
    {PackageHead \o n \o g \o r :
        n \in PackageNames, g \in PackageGaps, r \in PackageRests}

\* message blocks: openings of messages, fields and closings in any order
MaxMsgAtoms == 6

MsgAtoms ==
    {<<" ","m","e","s","s","a","g","e"," ","A"," ","{">>,
     <<" ","m","e","s","s","a","g","e"," ","B"," ","{">>,
     <<" ","a"," ","x"," ","="," ","1",";">>,
     <<" ","b"," ","y"," ","="," ","2",";">>,
     <<" ","}">>}

MessageInputs == {Prelude \o w : w \in Concats(MsgAtoms, MaxMsgAtoms)}

\* documents in which a byte that starts no token, a lone slash or a string
\* literal that is not closed stands in front of a message
TrailingStops == {<<" ","0">>, <<" ","-">>, <<" ","/">>, <<" ","/"," ">>,
                  <<" ","\"","a">>, <<" ","xFF">>, <<>>}

TrailingInputs ==
    {Prelude \o h \o t \o <<" ","m","e","s","s","a","g","e"," ","A"," ","{",
                            " ","}">> :
        h \in {<<>>, <<" ","m","e","s","s","a","g","e"," ","B"," ","{">>},
        t \in TrailingStops}

\* a document as its tokens, and the same document with one comment between
\* two of its tokens, in front of the first or after the last
BaseTokens ==
    <<<<"s","y","n","t","a","x">>, <<"=">>,
      <<"\"","p","r","o","t","o","3","\"">>, <<";">>,
      <<"p","a","c","k","a","g","e">>, <<"a",".","b">>, <<";">>,
      <<"o","p","t","i","o","n">>, <<"o">>, <<"=">>, <<"\"","v","\"">>,
      <<";">>, <<"i","m","p","o","r","t">>, <<"p","u","b","l","i","c">>,
      <<"\"","p","\"">>, <<";">>, <<"m","e","s","s","a","g","e">>, <<"M">>,
      <<"{">>, <<"a">>, <<"x">>, <<"=">>, <<"1">>, <<";">>, <<"b">>, <<"y">>,
      <<"=">>, <<"2">>, <<";">>, <<"}">>>>

RECURSIVE JoinTokens(_)
JoinTokens(toks) ==
    IF toks = <<>> THEN <<>> ELSE Head(toks) \o <<" ">> \o JoinTokens(Tail(toks))

BaseDoc == JoinTokens(BaseTokens)

InsertedComments == {<<"/","*","c","*","/">>, <<"/","/","c","\n">>}

CommentedAt(k, c) ==
    JoinTokens(SubSeq(BaseTokens, 1, k)) \o c
        \o JoinTokens(SubSeq(BaseTokens, k + 1, Len(BaseTokens)))

CommentedInputs ==
    {BaseDoc} \cup
        {CommentedAt(k, c) : k \in 0..Len(BaseTokens), c \in InsertedComments}

\* a message with one field whose number is written in each of these ways
NumberHead ==
    Prelude \o <<" ","m","e","s","s","a","g","e"," ","M"," ","{"," ","a"," ",
                 "x"," ","="," ">>

NumberTail == <<";"," ","}">>

NumberTexts ==
    {<<"0">>, <<"0","1">>, <<"0","0","7">>, <<"1">>, <<"1","0">>,
     <<"6","5","5","3","5">>, <<"6","5","5","3","6">>, <<"7","0","0","0","0">>,
     <<"1","0","0","0","0","0">>, <<"9","9","9","9","9","9","9","9","9">>,
     TenNines, TenNines \o TenNines, <<"-","1">>, <<>>}

NumberInputs == {NumberHead \o n \o NumberTail : n \in NumberTexts}

\* bytes of every kind for the byte cursor
MaxCursorLen == 4

CursorAtoms == {<<"a">>, <<"NUL">>, <<"\n">>, <<"xFF">>, <<"/">>, <<"\"">>}

CursorInputs == Concats(CursorAtoms, MaxCursorLen)

ScannerInputs ==
    WordInputs \cup IdentInputs \cup IntInputs \cup StringInputs
        \cup CommentInputs \cup ExampleInputs

Inputs ==
    ScannerInputs \cup DocInputs \cup DeclInputs \cup MapInputs
        \cup ReadFailInputs \cup PackageInputs \cup TrailingInputs
        \cup CommentedInputs \cup NumberInputs

(***************************************************************************)
(* The state machine.  pc = "main": the caller has made a Scanner and is   *)
(* about to pass it to scan_file, which then runs one statement per step   *)
(* (pc = "toplevel") until it returns (pc = "returned") or panics          *)
(* (pc = "panicked").  pc = "scanner": the caller holds a Scanner and      *)
(* calls next and expect on it, as the tests of scanner.rs do.             *)
(***************************************************************************)
S == [reader |-> reader, buffer |-> buffer, done |-> done]

Pending == buffer \o reader

SetScanner(s) ==
    /\ reader' = s.reader
    /\ buffer' = s.buffer
    /\ done' = s.done

EmptyDoc ==
    [syntax |-> "unset", package |-> <<>>, imports |-> <<>>,
     options |-> <<>>, messages |-> <<>>, services |-> <<>>]

NoResult == [kind |-> "none", val |-> <<>>]

\* the tokens the callers of expect pass to it
ExpectTokens ==
    {Kw("Syntax"), Kw("Equals"), Kw("SemiColon"), Kw("OpenBracket"),
     Kw("LessThan"), Kw("Comma"), Kw("GreaterThan")}

\* the state after Scanner::new(reader) on the bytes of one of the inputs
Fresh(inputs, caller) ==
    /\ input \in inputs
    /\ reader = input
    /\ buffer = <<>>
    /\ done = FALSE
    /\ pc = caller
    /\ op = "new"
    /\ pre = <<>>
    /\ ret = NoneTok
    /\ doc = EmptyDoc
    /\ result = NoResult
    /\ stdin = <<>>
    /\ bufreader = <<>>
    /\ parsing_headers = TRUE
    /\ headers = {}
    /\ delivered = <<>>

Init == Fresh(Inputs, "main")

\* a test calls scan.next()
NextReturned(r) ==
    /\ SetScanner(r.s)
    /\ ret' = r.tok
    /\ pc' = IF r.tok.kind = "Panic" THEN "panicked" ELSE pc

CallNext ==
    /\ pc = "scanner"
    /\ NextReturned(next(S))
    /\ op' = "next"
    /\ pre' = Pending
    /\ UNCHANGED <<input, doc, result>>
    /\ UNCHANGED ioVars

\* a caller calls scan.expect(tkn)
ExpectReturned(r, tkn) ==
    /\ SetScanner(r.s)
    /\ ret' = [kind |-> r.kind, val |-> r.val, tkn |-> tkn]
    /\ pc' = IF r.kind = "panic" THEN "panicked" ELSE pc

CallExpect ==
    /\ pc = "scanner"
    /\ \E tkn \in ExpectTokens : ExpectReturned(expect(S, tkn), tkn)
    /\ op' = "expect"
    /\ pre' = Pending
    /\ UNCHANGED <<input, doc, result>>
    /\ UNCHANGED ioVars

\* what a step of scan_file does with the result r of the function it called:
\* `?` returns the error, a panic unwinds, otherwise the loop goes on
Finish(r, newdoc) ==
    /\ SetScanner(r.s)
    /\ pre' = Pending
    /\ ret' = [kind |-> r.kind, val |-> r.val]
    /\ IF r.kind = "ok"
       THEN /\ doc' = newdoc
            /\ pc' = "toplevel"
            /\ result' = result
       ELSE IF r.kind = "err"
       THEN /\ doc' = doc
            /\ pc' = "returned"
            /\ result' = [kind |-> "err", val |-> r.val]
       ELSE /\ doc' = doc
            /\ pc' = "panicked"
            /\ result' = [kind |-> "panic", val |-> <<>>]
    /\ UNCHANGED input
    /\ UNCHANGED ioVars

\* scan_file up to its loop: scan_syntax
SyntaxDone(r) == Finish(r, [doc EXCEPT !.syntax = r.val])

ScanFileSyntax ==
    /\ pc = "main"
    /\ op' = "scan_syntax"
    /\ SyntaxDone(scan_syntax(S))

\* while let Some(token) = scan.next() fails: scan_file returns the Document
EndArm(n) ==
    /\ n.tok.kind = "None"
    /\ SetScanner(n.s)
    /\ ret' = n.tok

TopLevelEnd ==
    /\ pc = "toplevel"
    /\ EndArm(next(S))
    /\ op' = "end"
    /\ pre' = Pending
    /\ pc' = "returned"
    /\ result' = [kind |-> "ok", val |-> doc]
    /\ UNCHANGED <<input, doc>>
    /\ UNCHANGED ioVars

\* scan.next() panics inside the loop condition
NextPanicsArm(n) ==
    /\ n.tok.kind = "Panic"
    /\ Finish(Panic(n.s), doc)

TopLevelNextPanics ==
    /\ pc = "toplevel"
    /\ op' = "next"
    /\ NextPanicsArm(next(S))

\* Comment and SemiColon are skipped
SkipArm(n) ==
    /\ n.tok.kind \in {"Comment", "SemiColon"}
    /\ Finish(Ok(<<>>, n.s), doc)

TopLevelSkip ==
    /\ pc = "toplevel"
    /\ op' = "skip"
    /\ SkipArm(next(S))

\* ProtoToken::Syntax and ProtoToken::Enum: todo!()
TodoArm(n) ==
    /\ n.tok.kind \in {"Syntax", "Enum"}
    /\ Finish(Panic(n.s), doc)

TopLevelTodo ==
    /\ pc = "toplevel"
    /\ op' = "todo"
    /\ TodoArm(next(S))

PackageDone(r) == Finish(r, [doc EXCEPT !.package = r.val])

PackageArm(n) ==
    /\ n.tok.kind = "Package"
    /\ PackageDone(scan_package(n.s))

TopLevelPackage ==
    /\ pc = "toplevel"
    /\ op' = "scan_package"
    /\ PackageArm(next(S))

OptionDone(r) == Finish(r, [doc EXCEPT !.options = Append(@, r.val)])

OptionArm(n) ==
    /\ n.tok.kind = "Option"
    /\ OptionDone(scan_option(n.s))

TopLevelOption ==
    /\ pc = "toplevel"
    /\ op' = "scan_option"
    /\ OptionArm(next(S))

ImportDone(r) == Finish(r, [doc EXCEPT !.imports = Append(@, r.val)])

ImportArm(n) ==
    /\ n.tok.kind = "Import"
    /\ ImportDone(scan_import(n.s))

TopLevelImport ==
    /\ pc = "toplevel"
    /\ op' = "scan_import"
    /\ ImportArm(next(S))

MessageDone(r) == Finish(r, [doc EXCEPT !.messages = Append(@, r.val)])

MessageArm(n) ==
    /\ n.tok.kind = "Message"
    /\ MessageDone(scan_message(n.s))

TopLevelMessage ==
    /\ pc = "toplevel"
    /\ op' = "scan_message"
    /\ MessageArm(next(S))

ServiceDone(r) == Finish(r, [doc EXCEPT !.services = Append(@, r.val)])

ServiceArm(n) ==
    /\ n.tok.kind = "Service"
    /\ ServiceDone(scan_service(n.s))

TopLevelService ==
    /\ pc = "toplevel"
    /\ op' = "scan_service"
    /\ ServiceArm(next(S))

\* other => bail!("unexpected token {other}")
TopLevelArms ==
    {"Comment", "SemiColon", "Syntax", "Package", "Option", "Import",
     "Message", "Service", "Enum"}

UnexpectedArm(n) ==
    /\ n.tok.kind \notin TopLevelArms \cup {"None", "Panic"}
    /\ Finish(Err(<<"unexpected token", n.tok.kind>>, n.s), doc)

TopLevelUnexpected ==
    /\ pc = "toplevel"
    /\ op' = "unexpected"
    /\ UnexpectedArm(next(S))

Next ==
    \/ ScanFileSyntax
    \/ TopLevelEnd
    \/ TopLevelNextPanics
    \/ TopLevelSkip
    \/ TopLevelTodo
    \/ TopLevelPackage
    \/ TopLevelOption
    \/ TopLevelImport
    \/ TopLevelMessage
    \/ TopLevelService
    \/ TopLevelUnexpected

\* scan_file on a new Scanner over every input
Spec == Init /\ [][Next]_vars

\* scan_file on a new Scanner over the message blocks and the documents
InitMessage == Fresh(MessageInputs \cup DocInputs, "main")

SpecMessage == InitMessage /\ [][Next]_vars

(***************************************************************************)
(* The scanner on its own: next and expect called in any order on a new    *)
(* Scanner over the inputs of one family.                                  *)
(***************************************************************************)
NextScanner == CallNext \/ CallExpect

InitWords == Fresh(WordInputs \cup ExampleInputs, "scanner")

SpecWords == InitWords /\ [][NextScanner]_vars

InitIdent == Fresh(IdentInputs \cup ExampleInputs, "scanner")

SpecIdent == InitIdent /\ [][NextScanner]_vars

InitInt == Fresh(IntInputs \cup ExampleInputs, "scanner")

SpecInt == InitInt /\ [][NextScanner]_vars

InitString == Fresh(StringInputs \cup ExampleInputs, "scanner")

SpecString == InitString /\ [][NextScanner]_vars

InitComment == Fresh(CommentInputs \cup ExampleInputs, "scanner")

SpecComment == InitComment /\ [][NextScanner]_vars

InitExpect == Fresh(ExpectInputs, "scanner")

SpecExpect == InitExpect /\ [][NextScanner]_vars

(***************************************************************************)
(* The byte cursor on its own: peek and pop called in any order on a new   *)
(* Scanner, and then together with next and expect.  ret is the Option     *)
(* that the call returned: <<>> for None.                                  *)
(***************************************************************************)
CursorReturned(r, name) ==
    /\ SetScanner(r.s)
    /\ ret' = [kind |-> name, val |-> r.val]

CallPeek ==
    /\ pc = "scanner"
    /\ CursorReturned(peek(S), "peek")
    /\ op' = "peek"
    /\ pre' = Pending
    /\ UNCHANGED <<input, pc, doc, result>>
    /\ UNCHANGED ioVars

CallPop ==
    /\ pc = "scanner"
    /\ CursorReturned(pop(S), "pop")
    /\ op' = "pop"
    /\ pre' = Pending
    /\ UNCHANGED <<input, pc, doc, result>>
    /\ UNCHANGED ioVars

NextCursor == CallPeek \/ CallPop

InitCursor == Fresh(CursorInputs, "scanner")

SpecCursor == InitCursor /\ [][NextCursor]_vars

NextLookahead == CallPeek \/ CallPop \/ CallNext \/ CallExpect

InitLookahead == Fresh(CursorInputs \cup ExampleInputs, "scanner")

SpecLookahead == InitLookahead /\ [][NextLookahead]_vars

(***************************************************************************)
(* Termination: scan_file, and next called again and again, on a new       *)
(* Scanner.  The caller is sequential, so a step that can be taken is      *)
(* taken.                                                                  *)
(***************************************************************************)
TerminationInputs ==
    DocInputs \cup CursorInputs \cup ExampleInputs \cup ReadFailInputs

InitTermination ==
    \/ Fresh(TerminationInputs, "main")
    \/ Fresh(TerminationInputs, "scanner")

NextTermination == Next \/ CallNext

\* weak fairness of Next: a step of scan_file can be taken exactly when
\* scan_file is running, so either scan_file is not running again and again
\* or a step of it is taken again and again
ScanFileFair == []<>(pc \notin {"main", "toplevel"}) \/ []<><<Next>>_vars

SpecTermination ==
    InitTermination /\ [][NextTermination]_vars /\ ScanFileFair

(***************************************************************************)
(* handle_io (src/main.rs): the loop that reads framed messages from       *)
(* standard input.  One action is one iteration of the loop.               *)
(***************************************************************************)
\* BufRead::read_line on BufReader<Stdin>.  The BufReader gives the bytes it
\* holds up to and including the first newline; when it holds no newline it
\* fills itself from stdin, and a read of stdin returns as many bytes as have
\* arrived: the line is complete after a read that brought a newline, and
\* every byte that this read brought after the newline stays in the
\* BufReader.  At the end of input the line is what is left.
FirstNewline(b) ==
    CHOOSE i \in 1..Len(b) : b[i] = "\n" /\ \A j \in 1..(i - 1) : b[j] # "\n"

HasNewline(b) == \E i \in 1..Len(b) : b[i] = "\n"

LineRead(line, rb, st) == [line |-> line, bufreader |-> rb, stdin |-> st]

read_line(rb, st) ==
    IF HasNewline(rb)
    THEN {LineRead(SubSeq(rb, 1, FirstNewline(rb)),
                   SubSeq(rb, FirstNewline(rb) + 1, Len(rb)), st)}
    ELSE IF HasNewline(st)
    THEN {LineRead(rb \o SubSeq(st, 1, FirstNewline(st)),
                   SubSeq(st, FirstNewline(st) + 1, e),
                   SubSeq(st, e + 1, Len(st))) :
              e \in FirstNewline(st)..Len(st)}
    ELSE {LineRead(rb \o st, <<>>, <<>>)}

\* str::trim; of the bytes of this model these four are white space
TrimChars == {" ", "\t", "\n", "\r"}

RECURSIVE TrimStart(_)
TrimStart(b) ==
    IF b # <<>> /\ Head(b) \in TrimChars THEN TrimStart(Tail(b)) ELSE b

RECURSIVE TrimEnd(_)
TrimEnd(b) ==
    IF b # <<>> /\ b[Len(b)] \in TrimChars
    THEN TrimEnd(SubSeq(b, 1, Len(b) - 1))
    ELSE b

trim(b) == TrimEnd(TrimStart(b))

\* parse_header: s.split(": ") must give exactly two parts
Separators(s) == {i \in 1..(Len(s) - 1) : s[i] = ":" /\ s[i + 1] = " "}

HeaderSplit(s, i) ==
    [ok |-> TRUE, key |-> SubSeq(s, 1, i - 1),
     value |-> SubSeq(s, i + 2, Len(s))]

parse_header(s) ==
    IF Cardinality(Separators(s)) # 1
    THEN [ok |-> FALSE, key |-> <<>>, value |-> <<>>]
    ELSE HeaderSplit(s, CHOOSE i \in Separators(s) : TRUE)

\* HashMap::insert, HashMap::contains_key and the Index of HashMap
HeaderInsert(hd, key, value) ==
    {h \in hd : h[1] # key} \cup {<<key, value>>}

HeaderHas(hd, key) == \E h \in hd : h[1] = key

HeaderGet(hd, key) == (CHOOSE h \in hd : h[1] = key)[2]

W_ContentLength == <<"C","o","n","t","e","n","t","-","L","e","n","g","t","h">>

W_quit == <<"q","u","i","t">>

\* content_length.parse::<usize>(): digits after an optional plus sign; the
\* values of this model have at most nine digits
UsizeDigits(v) == IF v # <<>> /\ v[1] = "+" THEN Tail(v) ELSE v

ParseDigits(ds) ==
    IF ds # <<>> /\ Len(ds) <= 9 /\ \A i \in 1..Len(ds) : ds[i] \in Digits
    THEN [ok |-> TRUE, val |-> Decimal(ds)]
    ELSE [ok |-> FALSE, val |-> 0]

parse_usize(v) == ParseDigits(UsizeDigits(v))

\* read_n of main.rs: rd.take(n).read_exact(&mut buf), on the Stdin inside the
\* BufReader
main_read_n(st, n) ==
    IF Len(st) >= n
    THEN [ok |-> TRUE, bytes |-> SubSeq(st, 1, n),
          rd |-> SubSeq(st, n + 1, Len(st))]
    ELSE [ok |-> FALSE, bytes |-> <<>>, rd |-> <<>>]

\* the message bodies of this model that are the JSON text of an
\* LsBaseMessage whose method is initialize
BodyA ==
    <<"{", "\"", "j", "s", "o", "n", "_", "r", "p", "c", "\"", ":", "\"",
    "2", ".", "0", "\"", ",", "\"", "i", "d", "\"", ":", "1", ",", "\"",
    "m", "e", "t", "h", "o", "d", "\"", ":", "\"", "i", "n", "i", "t", "i",
    "a", "l", "i", "z", "e", "\"", ",", "\"", "p", "a", "r", "a", "m", "s",
    "\"", ":", "{", "\"", "p", "r", "o", "c", "e", "s", "s", "_", "i", "d",
    "\"", ":", "1", "}", "}">>

BodyB ==
    <<"{", "\"", "j", "s", "o", "n", "_", "r", "p", "c", "\"", ":", "\"",
    "2", ".", "0", "\"", ",", "\"", "i", "d", "\"", ":", "2", "2", ",",
    "\"", "m", "e", "t", "h", "o", "d", "\"", ":", "\"", "i", "n", "i",
    "t", "i", "a", "l", "i", "z", "e", "\"", ",", "\"", "p", "a", "r", "a",
    "m", "s", "\"", ":", "{", "\"", "p", "r", "o", "c", "e", "s", "s", "_",
    "i", "d", "\"", ":", "2", "2", "}", "}">>

AcceptedBodies == {BodyA, BodyB}

\* parse_content: Ok(()) is TRUE
parse_content(content) == content \in AcceptedBodies

\* the streams on standard input
FrameA == <<"C", "o", "n", "t", "e", "n", "t", "-", "L", "e", "n", "g", "t", "h",
    ":", " ", "7", "3", "\r", "\n", "\r", "\n">> \o BodyA

FrameB == <<"C", "o", "n", "t", "e", "n", "t", "-", "L", "e", "n", "g", "t", "h",
    ":", " ", "7", "5", "\r", "\n", "\r", "\n">> \o BodyB

StreamAB == FrameA \o FrameB

StreamBA == FrameB \o FrameA

StreamQuit == FrameA \o <<"q","u","i","t","\n">>

StdinInputs ==
    {StreamAB, StreamBA, StreamQuit, FrameA,
     <<>>,
     <<"\r", "\n", "{", "}">>,
     <<"C", "o", "n", "t", "e", "n", "t", "-", "T", "y", "p", "e", ":", " ",
      "x", "\r", "\n", "\r", "\n", "{", "}">>,
     <<"C", "o", "n", "t", "e", "n", "t", "-", "L", "e", "n", "g", "t", "h",
      ":", "2", "\r", "\n", "\r", "\n", "{", "}">>,
     <<"C", "o", "n", "t", "e", "n", "t", "-", "L", "e", "n", "g", "t", "h",
      ":", " ", "x", "\r", "\n", "\r", "\n", "{", "}">>,
     <<"C", "o", "n", "t", "e", "n", "t", "-", "L", "e", "n", "g", "t", "h",
      ":", " ", "9", "9", "\r", "\n", "\r", "\n", "{", "}">>,
     <<"C", "o", "n", "t", "e", "n", "t", "-", "L", "e", "n", "g", "t", "h",
      ":", " ", "2", "\r", "\n", "\r", "\n", "{", "}">>,
     <<"C", "o", "n", "t", "e", "n", "t", "-", "L", "e", "n", "g", "t", "h",
      ":", " ", "2", "\r", "\n", "xFF", "\n", "{", "}">>}

\* the end of an iteration: the loop goes on when res is NoResult, handle_io
\* returns when res is Ok or Err, and unwinds when it is a panic
IoStep(st, rb, ph, hd, dl, res) ==
    /\ stdin' = st
    /\ bufreader' = rb
    /\ parsing_headers' = ph
    /\ headers' = hd
    /\ delivered' = dl
    /\ result' = res
    /\ pc' = IF res.kind = "none" THEN pc
             ELSE IF res.kind = "panic" THEN "panicked"
             ELSE "returned"

IoErr(msg) == [kind |-> "err", val |-> msg]

IoPanic == [kind |-> "panic", val |-> <<>>]

IoOk == [kind |-> "ok", val |-> <<>>]

\* what an iteration leaves alone, and the record of the line it read
IoFrame(r, name) ==
    /\ op' = name
    /\ pre' = r.line
    /\ UNCHANGED <<input, ret>>
    /\ UNCHANGED scanVars

\* temp_rd.read_line(&mut buf)? fails: the line is not valid UTF-8
IoReadLineFails ==
    /\ pc = "handle_io"
    /\ \E r \in read_line(bufreader, stdin) :
          /\ ~Utf8Valid(r.line)
          /\ IoStep(r.stdin, r.bufreader, parsing_headers, headers,
                    delivered,
                    IoErr(<<"stream did not contain valid UTF-8">>))
          /\ IoFrame(r, "read_line")

\* an empty line while parsing_headers is false: the headers are cleared
IoClearHeaders ==
    /\ pc = "handle_io"
    /\ \E r \in read_line(bufreader, stdin) :
          /\ Utf8Valid(r.line)
          /\ trim(r.line) = <<>>
          /\ ~parsing_headers
          /\ IoStep(r.stdin, r.bufreader, TRUE, {}, delivered, NoResult)
          /\ IoFrame(r, "clear_headers")

\* an empty line while parsing_headers is true: the content is read and
\* passed to parse_content
IoContentRead(r, c) ==
    IF ~c.ok
    THEN IoStep(c.rd, r.bufreader, FALSE, headers, delivered,
                IoErr(<<"failed to fill whole buffer">>))
    ELSE IoStep(c.rd, r.bufreader, FALSE, headers,
                Append(delivered, c.bytes),
                IF parse_content(c.bytes) THEN NoResult
                ELSE IoErr(<<"parse_content">>))

IoContentLength(r, n) ==
    IF ~n.ok
    THEN IoStep(r.stdin, r.bufreader, FALSE, headers, delivered,
                IoErr(<<"invalid digit found in string">>))
    ELSE IoContentRead(r, main_read_n(r.stdin, n.val))

IoContentHeaders(r) ==
    IF ~HeaderHas(headers, W_ContentLength)
    THEN IoStep(r.stdin, r.bufreader, FALSE, headers, delivered, IoPanic)
    ELSE IoContentLength(r, parse_usize(HeaderGet(headers, W_ContentLength)))

IoContent ==
    /\ pc = "handle_io"
    /\ \E r \in read_line(bufreader, stdin) :
          /\ Utf8Valid(r.line)
          /\ trim(r.line) = <<>>
          /\ parsing_headers
          /\ IoContentHeaders(r)
          /\ IoFrame(r, "content")

\* a line that is not empty while parsing_headers is true
IoHeaderParsed(r, h) ==
    IF ~h.ok
    THEN IoStep(r.stdin, r.bufreader, parsing_headers, headers, delivered,
                IoErr(<<"expected header in format {Name}: {Value}">>))
    ELSE IoStep(r.stdin, r.bufreader, parsing_headers,
                HeaderInsert(headers, h.key, h.value), delivered, NoResult)

IoHeader ==
    /\ pc = "handle_io"
    /\ \E r \in read_line(bufreader, stdin) :
          /\ Utf8Valid(r.line)
          /\ trim(r.line) # <<>>
          /\ parsing_headers
          /\ IoHeaderParsed(r, parse_header(trim(r.line)))
          /\ IoFrame(r, "header")

\* a line that is not empty while parsing_headers is false: quit ends the
\* loop, every other line is dropped
IoQuit ==
    /\ pc = "handle_io"
    /\ \E r \in read_line(bufreader, stdin) :
          /\ Utf8Valid(r.line)
          /\ trim(r.line) = W_quit
          /\ ~parsing_headers
          /\ IoStep(r.stdin, r.bufreader, parsing_headers, headers,
                    delivered, IoOk)
          /\ IoFrame(r, "quit")

IoOtherLine ==
    /\ pc = "handle_io"
    /\ \E r \in read_line(bufreader, stdin) :
          /\ Utf8Valid(r.line)
          /\ trim(r.line) \notin {<<>>, W_quit}
          /\ ~parsing_headers
          /\ IoStep(r.stdin, r.bufreader, parsing_headers, headers,
                    delivered, NoResult)
          /\ IoFrame(r, "other_line")

NextIo ==
    \/ IoReadLineFails
    \/ IoClearHeaders
    \/ IoContent
    \/ IoHeader
    \/ IoQuit
    \/ IoOtherLine

\* handle_io on each of the streams
InitIo ==
    /\ input \in StdinInputs
    /\ stdin = input
    /\ bufreader = <<>>
    /\ parsing_headers = TRUE
    /\ headers = {}
    /\ delivered = <<>>
    /\ pc = "handle_io"
    /\ op = "new"
    /\ pre = <<>>
    /\ ret = NoneTok
    /\ result = NoResult
    /\ reader = <<>>
    /\ buffer = <<>>
    /\ done = FALSE
    /\ doc = EmptyDoc

SpecIo == InitIo /\ [][NextIo]_vars

(***************************************************************************)
(* Reference definitions: what the specification says about a plain byte   *)
(* sequence, written without the scanner.                                  *)
(***************************************************************************)
Drop(b, n) == SubSeq(b, n + 1, Len(b))

\* the length of the longest prefix of b whose bytes are all in set
RECURSIVE RefRun(_, _)
RefRun(b, set) ==
    IF b # <<>> /\ Head(b) \in set THEN 1 + RefRun(Tail(b), set) ELSE 0

\* [A-Za-z][A-Za-z0-9_]*
RefIsIdent(b) ==
    b # <<>> /\ b[1] \in Letters /\ \A i \in 1..Len(b) : b[i] \in IdentChars

\* an identifier at the start of b, then as long as a dot and a letter follow
\* another identifier: the segments, what is left, and whether what is left
\* starts with a dot (a dot that no identifier follows)
RECURSIVE RefFullIdent(_, _)
RefFullIdent(b, segs) ==
    LET n    == RefRun(b, IdentChars)
        rest == Drop(b, n)
    IN  IF Len(rest) >= 2 /\ rest[1] = "." /\ rest[2] \in Letters
        THEN RefFullIdent(Tail(rest), Append(segs, SubSeq(b, 1, n)))
        ELSE [segs     |-> Append(segs, SubSeq(b, 1, n)),
              rest     |-> rest,
              dangling |-> rest # <<>> /\ rest[1] = "."]

\* the keyword table of the specification
RefKeywordTable ==
    {<<<<"s","y","n","t","a","x">>, "Syntax">>,
     <<<<"p","a","c","k","a","g","e">>, "Package">>,
     <<<<"o","p","t","i","o","n">>, "Option">>,
     <<<<"i","m","p","o","r","t">>, "Import">>,
     <<<<"m","e","s","s","a","g","e">>, "Message">>,
     <<<<"s","e","r","v","i","c","e">>, "Service">>,
     <<<<"e","n","u","m">>, "Enum">>,
     <<<<"o","n","e","o","f">>, "OneOf">>,
     <<<<"r","e","p","e","a","t","e","d">>, "Repeated">>,
     <<<<"w","e","a","k">>, "Weak">>,
     <<<<"p","u","b","l","i","c">>, "Public">>,
     <<<<"r","e","s","e","r","v","e","d">>, "Reserved">>,
     <<<<"e","x","t","e","n","d">>, "Extend">>,
     <<<<"e","x","t","e","n","s","i","o","n","s">>, "Extensions">>,
     <<<<"t","o">>, "To">>,
     <<<<"m","a","x">>, "Max">>,
     <<<<"m","a","p">>, "Map">>}

RefKeywords == {e[1] : e \in RefKeywordTable}

RefKeywordToken(w) == (CHOOSE e \in RefKeywordTable : e[1] = w)[2]

\* the string literal at the start of b (b[1] is the quote): the literal is
\* closed by the first unescaped b[1]; a backslash takes the next byte as it is
RECURSIVE RefString(_, _, _)
RefString(b, i, val) ==
    IF i > Len(b) THEN [closed |-> FALSE, val |-> val, rest |-> <<>>]
    ELSE IF b[i] = b[1] THEN [closed |-> TRUE, val |-> val, rest |-> Drop(b, i)]
    ELSE IF b[i] = "\\"
         THEN IF i + 1 > Len(b)
              THEN [closed |-> FALSE, val |-> val, rest |-> <<>>]
              ELSE RefString(b, i + 2, Append(val, b[i + 1]))
    ELSE RefString(b, i + 1, Append(val, b[i]))

\* the positions of b at or after position from that hold a byte of set
RefPositions(b, from, set) == {i \in from..Len(b) : b[i] \in set}

SetMin(ns) == CHOOSE n \in ns : \A m \in ns : n <= m

\* the positions j >= 3 of b where "*/" starts
RefCloses(b) == {j \in 3..(Len(b) - 1) : b[j] = "*" /\ b[j + 1] = "/"}

RECURSIVE RefDecimal(_)
RefDecimal(ds) ==
    IF ds = <<>> THEN 0
    ELSE 10 * RefDecimal(SubSeq(ds, 1, Len(ds) - 1)) + DigitVal(ds[Len(ds)])

\* the lexical mode at the end of b according to the specification: "code",
\* inside a line comment, inside a block comment, or inside a string literal
\* opened by the quote q ("string")
RECURSIVE RefEndMode(_, _, _, _)
RefEndMode(b, i, mode, q) ==
    IF i > Len(b) THEN mode
    ELSE IF mode = "line"
         THEN RefEndMode(b, i + 1, IF b[i] = "\n" THEN "code" ELSE "line", q)
    ELSE IF mode = "block"
         THEN IF b[i] = "*" /\ i < Len(b) /\ b[i + 1] = "/"
              THEN RefEndMode(b, i + 2, "code", q)
              ELSE RefEndMode(b, i + 1, "block", q)
    ELSE IF mode = "string"
         THEN IF b[i] = "\\" THEN RefEndMode(b, i + 2, "string", q)
              ELSE RefEndMode(b, i + 1, IF b[i] = q THEN "code" ELSE "string", q)
    ELSE IF b[i] \in Quotes THEN RefEndMode(b, i + 1, "string", b[i])
    ELSE IF b[i] = "/" /\ i < Len(b) /\ b[i + 1] = "/"
         THEN RefEndMode(b, i + 2, "line", q)
    ELSE IF b[i] = "/" /\ i < Len(b) /\ b[i + 1] = "*"
         THEN RefEndMode(b, i + 2, "block", q)
    ELSE RefEndMode(b, i + 1, "code", q)

\* b holds a string literal that is not closed before the end of input
RefUnterminatedString(b) == RefEndMode(b, 1, "code", "") = "string"

\* the type ty is, or holds in a key or a value, the Identifier of a
\* scalar-type keyword
RECURSIVE ScalarIdentifierIn(_)
ScalarIdentifierIn(ty) ==
    IF ty.kind = "Map"
    THEN ScalarIdentifierIn(ty.val.key) \/ ScalarIdentifierIn(ty.val.value)
    ELSE ty.kind = "Identifier" /\ ty.val \in ScalarWords

\* no field of the messages ms, or of the messages nested in them, has such a
\* type
RECURSIVE NoScalarIdentifier(_)
NoScalarIdentifier(ms) ==
    \/ ms = <<>>
    \/ /\ \A i \in 1..Len(Head(ms).fields) :
              ~ScalarIdentifierIn(Head(ms).fields[i].type)
       /\ NoScalarIdentifier(Head(ms).messages)
       /\ NoScalarIdentifier(Tail(ms))

(***************************************************************************)
(* Claims                                                                  *)
(***************************************************************************)
W_string == <<"s","t","r","i","n","g">>

W_name == <<"n","a","m","e">>

ExampleExpected ==
    [syntax   |-> "Proto3",
     package  |-> <<<<"a">>, <<"b">>>>,
     imports  |-> <<>>,
     options  |-> <<>>,
     messages |-> <<[name     |-> <<"M">>,
                     fields   |-> <<[type  |-> FieldType("String", <<>>),
                                     name  |-> W_name,
                                     index |-> 1]>>,
                     messages |-> <<>>]>>,
     services |-> <<>>]

\* C1: in a Document scan_file returns, no field type is the Identifier of a
\* scalar-type keyword (bool, string, bytes, float, double): such a type
\* word gives the scalar FieldType; and the example document of the
\* specification parses to Proto3, package [a, b], one message M with the
\* single field {String, name, 1}.
C1_ScalarFieldTypes ==
    result.kind = "ok" =>
        /\ NoScalarIdentifier(result.val.messages)
        /\ input = ExampleDoc => result.val = ExampleExpected

\* C2: next on an input that is exactly a word of the keyword table returns
\* that keyword's token and consumes the whole word; every other single
\* identifier (also one that differs from a keyword only in case) returns
\* Identifier with its bytes; identifiers joined by dots never give a
\* keyword token.
C2_KeywordLookup ==
    (op = "next" /\ pre # <<>> /\ pre[1] \in Letters) =>
        /\ pre \in RefKeywords =>
              TokEq(ret, Kw(RefKeywordToken(pre))) /\ Pending = <<>>
        /\ (RefIsIdent(pre) /\ pre \notin RefKeywords) =>
              TokEq(ret, Tok("Identifier", pre)) /\ Pending = <<>>
        /\ (Len(RefFullIdent(pre, <<>>).segs) >= 2
               /\ ~RefFullIdent(pre, <<>>).dangling) =>
              ret.kind = "FullIdentifier"

C2_Witness ==
    /\ op = "next"
    /\ pre = <<"e","x","t","e","n","s","i","o","n","s">>
    /\ ret.kind = "Extensions"
    /\ Pending = <<>>

\* C3: scan_file never panics: it ends by returning a Document or an error
\* value to its caller.
C3_NoPanic == pc # "panicked" /\ result.kind # "panic"

\* next returned a token: neither None nor a panic
IsToken(r) == r.kind \notin {"None", "Panic"}

\* C4: when an identifier is followed by a dot that no identifier follows,
\* next neither returns a token nor reports the end of the sequence.
C4_DanglingDot ==
    (op = "next" /\ pre # <<>> /\ pre[1] \in Letters
        /\ RefFullIdent(pre, <<>>).dangling) =>
        /\ ~IsToken(ret)
        /\ ret.kind # "None"

\* C5: scan_file never returns a Document for an input that holds a string
\* literal that is not closed before the end of input.
C5_UnterminatedString ==
    result.kind = "ok" => ~RefUnterminatedString(input)

\* C6: next on a string literal that is closed (and whose content is valid
\* UTF-8, so that it has a String value) returns StringLiteral with the
\* content up to the first unescaped occurrence of the opening quote,
\* where a backslash is dropped and the byte after it is kept as it is, and
\* consumes the literal up to and including that closing quote.
C6_StringLiteral ==
    (op = "next" /\ pre # <<>> /\ pre[1] \in Quotes
        /\ RefString(pre, 2, <<>>).closed
        /\ Utf8Valid(RefString(pre, 2, <<>>).val)) =>
        /\ TokEq(ret, Tok("StringLiteral", RefString(pre, 2, <<>>).val))
        /\ Pending = RefString(pre, 2, <<>>).rest

C6_Witness ==
    /\ op = "next"
    /\ pre = <<"\"","s","t","r","\\","\"","i","n","g","\"">>
    /\ ret.kind = "StringLiteral"
    /\ ret.val = <<"s","t","r","\"","i","n","g">>
    /\ Pending = <<>>

\* C7: next on n >= 2 identifiers joined by single dots returns one
\* FullIdentifier whose segments are those identifiers in source order, and
\* consumes them and nothing after them.
C7_FullIdentifier ==
    (op = "next" /\ pre # <<>> /\ pre[1] \in Letters
        /\ Len(RefFullIdent(pre, <<>>).segs) >= 2
        /\ ~RefFullIdent(pre, <<>>).dangling) =>
        /\ TokEq(ret, Tok("FullIdentifier", RefFullIdent(pre, <<>>).segs))
        /\ Pending = RefFullIdent(pre, <<>>).rest

C7_Witness ==
    /\ op = "next"
    /\ pre = <<"f","o","o",".","b","a","r",".","b","a","z">>
    /\ ret.kind = "FullIdentifier"
    /\ ret.val = <<<<"f","o","o">>, <<"b","a","r">>, <<"b","a","z">>>>
    /\ Pending = <<>>

\* the Comment a line comment gives when it ends at the first byte of ends
\* (or at the end of input) and that byte is consumed
LineCommentIs(ends) ==
    IF RefPositions(pre, 3, ends) = {}
    THEN TokEq(ret, Tok("Comment", Drop(pre, 2))) /\ Pending = <<>>
    ELSE /\ TokEq(ret, Tok("Comment",
                 SubSeq(pre, 3, SetMin(RefPositions(pre, 3, ends)) - 1)))
         /\ Pending = Drop(pre, SetMin(RefPositions(pre, 3, ends)))

StartsLineComment == Len(pre) >= 2 /\ pre[1] = "/" /\ pre[2] = "/"

\* C8 as stated: the text of a line comment is every byte after "//" up to
\* the first newline or the end of input, and the newline is consumed.
C8_LineCommentToNewline ==
    (op = "next" /\ StartsLineComment) => LineCommentIs({"\n"})

\* C8 as amended: the text of a line comment is every byte after "//" up to
\* the first newline, the first byte 0x00 or the end of input, and that
\* newline or 0x00 byte is consumed and is not part of the text.
C8_LineCommentToNewlineOrNul ==
    (op = "next" /\ StartsLineComment) => LineCommentIs({"\n", "NUL"})

C8_Witness ==
    /\ op = "next"
    /\ pre = <<"/","/","a","NUL","a","\n">>
    /\ ret.kind = "Comment"
    /\ ret.val = <<"a">>
    /\ Pending = <<"a","\n">>

\* C9: next on "/*" that a "*/" follows returns Comment with exactly the
\* bytes between "/*" and the first following "*/", asterisks and newlines
\* included, and consumes up to and including that "*/".
C9_BlockComment ==
    (op = "next" /\ Len(pre) >= 2 /\ pre[1] = "/" /\ pre[2] = "*"
        /\ RefCloses(pre) # {}) =>
        /\ TokEq(ret, Tok("Comment", SubSeq(pre, 3, SetMin(RefCloses(pre)) - 1)))
        /\ Pending = Drop(pre, SetMin(RefCloses(pre)) + 1)

C9_Witness ==
    /\ op = "next"
    /\ pre = <<"/","*","*","*","/","a">>
    /\ ret.kind = "Comment"
    /\ ret.val = <<"*">>
    /\ Pending = <<"a">>

\* the isize value of the digits ds
RefIsize(ds) == IF Len(ds) <= 9 THEN Small(RefDecimal(ds)) ELSE Wide(ds)

\* C10: next on an input that starts with a digit 1-9 returns IntLiteral
\* with the decimal value of the maximal run of digits and consumes exactly
\* that run; next on an input that starts with 0 or a sign returns no
\* IntLiteral.
C10_IntLiteral ==
    (op = "next" /\ pre # <<>>) =>
        /\ pre[1] \in NonZeroDigits =>
              /\ ret.kind = "IntLiteral"
              /\ ret.val = RefIsize(SubSeq(pre, 1, RefRun(pre, Digits)))
              /\ Pending = Drop(pre, RefRun(pre, Digits))
        /\ pre[1] \in {"0", "-"} => ret.kind # "IntLiteral"

\* b without the whitespace and the comments it starts with
RECURSIVE RefSkip(_)
RefSkip(b) ==
    IF b = <<>> THEN b
    ELSE IF b[1] \in {" ", "\t", "\r", "\n"} THEN RefSkip(Tail(b))
    ELSE IF Len(b) >= 2 /\ b[1] = "/" /\ b[2] = "/"
         THEN IF RefPositions(b, 3, {"\n", "NUL"}) = {} THEN <<>>
              ELSE RefSkip(Drop(b, SetMin(RefPositions(b, 3, {"\n", "NUL"}))))
    ELSE IF Len(b) >= 2 /\ b[1] = "/" /\ b[2] = "*" /\ RefCloses(b) # {}
         THEN RefSkip(Drop(b, SetMin(RefCloses(b)) + 1))
    ELSE b

\* b starts with the bytes w
RefStarts(b, w) == Len(b) >= Len(w) /\ SubSeq(b, 1, Len(w)) = w

\* the syntax version that the declaration at the start of b declares, or
\* "none" when b does not start with `syntax`, `=`, a string literal equal to
\* proto2 or proto3, and `;` (whitespace and comments apart)
RefDeclSemiColon(b, version) ==
    IF RefStarts(b, <<";">>) THEN version ELSE "none"

RefDeclLiteral(b) ==
    IF b = <<>> \/ b[1] \notin {"\"", "'"} \/ ~RefString(b, 2, <<>>).closed
    THEN "none"
    ELSE IF RefString(b, 2, <<>>).val = <<"p","r","o","t","o","2">>
         THEN RefDeclSemiColon(RefSkip(RefString(b, 2, <<>>).rest), "Proto2")
    ELSE IF RefString(b, 2, <<>>).val = <<"p","r","o","t","o","3">>
         THEN RefDeclSemiColon(RefSkip(RefString(b, 2, <<>>).rest), "Proto3")
    ELSE "none"

RefDeclEquals(b) ==
    IF RefStarts(b, <<"=">>) THEN RefDeclLiteral(RefSkip(Tail(b))) ELSE "none"

RefDeclKeyword(b) ==
    IF /\ RefStarts(b, <<"s","y","n","t","a","x">>)
       /\ (Len(b) = 6 \/ b[7] \notin IdentChars \cup {"."})
    THEN RefDeclEquals(RefSkip(Drop(b, 6)))
    ELSE "none"

RefSyntaxDecl(b) == RefDeclKeyword(RefSkip(b))

\* C11: when scan_file returns, it returns a Document only if the input
\* starts (comments apart) with `syntax`, `=`, a string literal equal to
\* proto2 or proto3, and `;`, and the Document's syntax version is the one
\* of that literal; on every other input it returns an error.
C11_SyntaxDeclaration ==
    pc = "returned" =>
        IF RefSyntaxDecl(input) = "none"
        THEN result.kind = "err"
        ELSE result.kind = "ok" => result.val.syntax = RefSyntaxDecl(input)

C11_Witness ==
    /\ input = <<"/","*","c","*","/","s","y","n","t","a","x"," ","="," ",
                 "'","p","r","o","t","o","2","'",";">>
    /\ result.kind = "ok"
    /\ result.val.syntax = "Proto2"

\* the steps of the top-level loop of scan_file
LoopOps ==
    {"end", "next", "skip", "todo", "scan_package", "scan_option",
     "scan_import", "scan_message", "scan_service", "unexpected"}

\* the token that the last step of the loop read from the pending bytes
LoopToken == next([reader |-> pre, buffer |-> <<>>, done |-> FALSE]).tok

\* C12: when the top-level loop reads a token other than a comment, `;`,
\* package, option, import, message and service, scan_file returns the error
\* "unexpected token" that names that token.
C12_UnexpectedToken ==
    (/\ op \in LoopOps
     /\ LoopToken.kind \notin
            {"None", "Panic", "Comment", "SemiColon", "Package", "Option",
             "Import", "Message", "Service"}) =>
        /\ pc = "returned"
        /\ result = [kind |-> "err",
                     val  |-> <<"unexpected token", LoopToken.kind>>]

\* expect(ret.tkn) has returned what the specification says when n is the
\* result of next on the pending bytes without their leading comments
ExpectAgrees(n) ==
    IF TokEq(n.tok, ret.tkn)
    THEN /\ ret.kind = "ok"
         /\ ret.val = ret.tkn
         /\ Pending = n.s.buffer \o n.s.reader
    ELSE IF n.tok.kind = "None"
    THEN /\ ret.kind = "err"
         /\ ret.val = <<"wanted", ret.tkn.kind, "but received EOF">>
    ELSE /\ ret.kind = "err"
         /\ ret.val = <<"wanted", ret.tkn.kind, "but got", n.tok.kind>>

ExpectDefined(n) == n.tok.kind # "Panic" => ExpectAgrees(n)

\* C13: expect(t) skips the comments in front of the next token; it returns
\* Ok(t) and has consumed that token when the token equals t; otherwise it
\* returns an error that names t and the token received, or EOF when the
\* token sequence has ended.
C13_Expect ==
    op = "expect" =>
        ExpectDefined(next([reader |-> RefSkip(pre), buffer |-> <<>>,
                            done |-> FALSE]))

C13_Witness ==
    /\ op = "expect"
    /\ pre = <<"/","*","c","*","/","/","/","c","\n","=",";">>
    /\ ret.kind = "ok"
    /\ ret.tkn = Kw("Equals")
    /\ Pending = <<";">>

\* b without the whitespace it starts with
RefBlank(b) == Drop(b, RefRun(b, {" ", "\t", "\r", "\n"}))

\* the field type written at the start of b according to the grammar
\*   type := identifier | full identifier | map < type , type >
\* as [ok, ty, rest]; ok is FALSE when b starts with no such type
RefNoType == [ok |-> FALSE, ty |-> <<>>, rest |-> <<>>]

RECURSIVE RefType(_)
RefMapValue(key, v) ==
    IF v.ok /\ RefStarts(RefBlank(v.rest), <<">">>)
    THEN [ok   |-> TRUE,
          ty   |-> [kind |-> "Map", val |-> [key |-> key, value |-> v.ty]],
          rest |-> Tail(RefBlank(v.rest))]
    ELSE RefNoType

RefMapKey(k) ==
    IF k.ok /\ RefStarts(RefBlank(k.rest), <<",">>)
    THEN RefMapValue(k.ty, RefType(Tail(RefBlank(k.rest))))
    ELSE RefNoType

RefMapOpen(b) ==
    IF RefStarts(b, <<"<">>) THEN RefMapKey(RefType(Tail(b))) ELSE RefNoType

RefTypeWord(f) ==
    IF f.dangling THEN RefNoType
    ELSE IF Len(f.segs) >= 2
         THEN [ok |-> TRUE, ty |-> [kind |-> "FullIdentifier", val |-> f.segs],
               rest |-> f.rest]
    ELSE IF f.segs[1] = <<"m","a","p">> THEN RefMapOpen(RefBlank(f.rest))
    ELSE IF f.segs[1] \in RefKeywords THEN RefNoType
    ELSE [ok |-> TRUE, ty |-> [kind |-> "Identifier", val |-> f.segs[1]],
          rest |-> f.rest]

RefTypeStart(b) ==
    IF b = <<>> \/ b[1] \notin Letters THEN RefNoType
    ELSE RefTypeWord(RefFullIdent(b, <<>>))

RefType(b) == RefTypeStart(RefBlank(b))

\* the input is a document of MapInputs; the text of its field type
IsMapDoc ==
    /\ Len(input) >= Len(MapHead) + Len(MapTail)
    /\ RefStarts(input, MapHead)
    /\ Drop(input, Len(input) - Len(MapTail)) = MapTail

MapTypeText == SubSeq(input, Len(MapHead) + 1, Len(input) - Len(MapTail))

\* scan_file has returned what the specification says for the type r
MapTypeAgrees(r) ==
    IF r.ok /\ RefBlank(r.rest) = <<>>
    THEN /\ result.kind = "ok"
         /\ result.val.messages =
                <<[name     |-> <<"M">>,
                   fields   |-> <<[type |-> r.ty, name |-> <<"x">>,
                                   index |-> 1]>>,
                   messages |-> <<>>]>>
    ELSE result.kind = "err"

\* C14: a field type `map < K , V >` gives Map{key, value} with key resolved
\* from K and value from V by the same rule, so that a map as the value
\* nests; a type text with a missing `<`, `,` or `>` gives an error.
C14_MapType == (pc = "returned" /\ IsMapDoc) => MapTypeAgrees(RefType(MapTypeText))

C14_Witness ==
    /\ pc = "returned"
    /\ MapTypeText = <<"m","a","p","<","a",",","m","a","p","<","a",",","b",
                       ">",">">>
    /\ IsMapDoc
    /\ result.kind = "ok"
    /\ result.val.messages[1].fields[1].type =
           FieldType("Map",
               [key   |-> FieldType("Identifier", <<"a">>),
                value |-> FieldType("Map",
                    [key   |-> FieldType("Identifier", <<"a">>),
                     value |-> FieldType("Identifier", <<"b">>)])])

\* the type ty is, or holds in a key or a value, a Map whose key is a Map
RECURSIVE MapKeyedByMapIn(_)
MapKeyedByMapIn(ty) ==
    /\ ty.kind = "Map"
    /\ \/ ty.val.key.kind = "Map"
       \/ MapKeyedByMapIn(ty.val.key)
       \/ MapKeyedByMapIn(ty.val.value)

RECURSIVE NoMapKeyedByMap(_)
NoMapKeyedByMap(ms) ==
    \/ ms = <<>>
    \/ /\ \A i \in 1..Len(Head(ms).fields) :
              ~MapKeyedByMapIn(Head(ms).fields[i].type)
       /\ NoMapKeyedByMap(Head(ms).messages)
       /\ NoMapKeyedByMap(Tail(ms))

\* C15: in a Document that scan_file returns, the key of a Map field type is
\* never a Map.
C15_MapKeyNotMap == result.kind = "ok" => NoMapKeyedByMap(result.val.messages)

\* in each of the messages ms, and in each message nested in them, no two
\* fields have the same number
RECURSIVE UniqueNumbers(_)
UniqueNumbers(ms) ==
    \/ ms = <<>>
    \/ /\ \A i, j \in 1..Len(Head(ms).fields) :
              i # j => Head(ms).fields[i].index # Head(ms).fields[j].index
       /\ UniqueNumbers(Head(ms).messages)
       /\ UniqueNumbers(Tail(ms))

\* C16: in a Document that scan_file returns, no two fields of the same
\* message have the same number.
C16_UniqueFieldNumbers ==
    result.kind = "ok" => UniqueNumbers(result.val.messages)

\* the bytes that start a token according to the specification
RefTokenStarts ==
    Letters \cup {"\"", "'", "/"}
        \cup {"1", "2", "3", "4", "5", "6", "7", "8", "9"}
        \cup {";", "=", "{", "}", "(", ")", "[", "]", ":", "<", ">", ","}

\* C17: when the first byte after the leading whitespace starts no token,
\* next returns end-of-sequence and leaves that byte, and what follows it,
\* unconsumed.
C17_UnrecognizedByte ==
    (/\ op = "next"
     /\ RefBlank(pre) # <<>>
     /\ RefBlank(pre)[1] \notin RefTokenStarts) =>
        /\ ret = NoneTok
        /\ Pending = RefBlank(pre)

C17_Witness ==
    /\ op = "next"
    /\ pre = <<" ", "0", "1">>
    /\ ret = NoneTok
    /\ Pending = <<"0", "1">>

\* the source stands at a place where reading fails and nothing is buffered
AtReadFailure == buffer = <<>> /\ reader # <<>> /\ reader[1] = "EIO"

\* C18: a read failure of the source is never taken for the end of input:
\* when scan_file returns with the source at a read failure, it returns an
\* error, and not the error for a token sequence that ended (EOF).
C18_ReadFailure ==
    (pc = "returned" /\ AtReadFailure) =>
        /\ result.kind = "err"
        /\ result.val[Len(result.val)] # "but received EOF"

\* the sequence a is a prefix of the sequence b
RefIsPrefix(a, b) == Len(a) <= Len(b) /\ SubSeq(b, 1, Len(a)) = a

\* the bodies of a stream of two well-framed messages, in arrival order
RefBodies ==
    IF input = StreamAB THEN <<BodyA, BodyB>> ELSE <<BodyB, BodyA>>

\* C19: on a stream of two well-framed messages handle_io passes to
\* parse_content the bodies of the messages, each once and in arrival order:
\* what it has passed is always a prefix of the bodies, and when handle_io
\* has ended it is both bodies.
C19_EachBodyOnce ==
    input \in {StreamAB, StreamBA} =>
        /\ RefIsPrefix(delivered, RefBodies)
        /\ pc \in {"returned", "panicked"} => delivered = RefBodies

\* C20: when an empty line ends a header block that holds no Content-Length
\* header (also at the end of input with no header read), handle_io returns
\* an error value.
C20_ContentLengthMandatory ==
    (op = "content" /\ ~HeaderHas(headers, <<"C","o","n","t","e","n","t","-",
                                            "L","e","n","g","t","h">>)) =>
        /\ pc = "returned"
        /\ result.kind = "err"

\* the input is one package statement after the syntax declaration: its name
IsPackageDoc ==
    /\ RefStarts(input, PackageHead)
    /\ input[Len(input)] = ";"

PackageText == SubSeq(input, Len(PackageHead) + 1, Len(input) - 1)

\* b is an identifier, or identifiers joined by single dots
RefIsFullIdent(b) ==
    /\ b # <<>>
    /\ b[1] \in Letters
    /\ RefFullIdent(b, <<>>).rest = <<>>
    /\ (Len(RefFullIdent(b, <<>>).segs) = 1 =>
            RefFullIdent(b, <<>>).segs[1] \notin RefKeywords)

\* C21: `package`, an identifier of one or more segments joined by dots, and
\* `;` set the package of the Document to those segments in order:
\* `package a.b;` gives [a, b] and `package foo;` gives [foo].
C21_PackageStatement ==
    (pc = "returned" /\ IsPackageDoc /\ RefIsFullIdent(PackageText)) =>
        /\ result.kind = "ok"
        /\ result.val.package = RefFullIdent(PackageText, <<>>).segs

\* the atoms of MsgAtoms that the bytes b are made of, in order
RefAtomAt(b) == CHOOSE a \in MsgAtoms : RefStarts(b, a)

RECURSIVE RefIsAtoms(_)
RefIsAtoms(b) ==
    \/ b = <<>>
    \/ /\ \E a \in MsgAtoms : RefStarts(b, a)
       /\ RefIsAtoms(Drop(b, Len(RefAtomAt(b))))

RECURSIVE RefAtoms(_)
RefAtoms(b) ==
    IF b = <<>> THEN <<>>
    ELSE <<RefAtomAt(b)>> \o RefAtoms(Drop(b, Len(RefAtomAt(b))))

\* the input is a document of MessageInputs; its atoms
IsMessageDoc ==
    /\ RefStarts(input, Prelude)
    /\ RefIsAtoms(Drop(input, Len(Prelude)))

MessageAtoms == RefAtoms(Drop(input, Len(Prelude)))

RefIsOpen(a) == a[Len(a)] = "{"

RefIsClose(a) == a[Len(a)] = "}"

RefIsField(a) == a[Len(a)] = ";"

\* the number of message blocks that are open in front of the atom at i: the
\* openings before i less the closings before i
RefDepth(as, i) ==
    Cardinality({j \in 1..(i - 1) : RefIsOpen(as[j])})
        - Cardinality({j \in 1..(i - 1) : RefIsClose(as[j])})

\* the closing that ends the block opened at i: the first atom after i in
\* front of which the depth is one more than in front of i, and that closes
RefCloseOf(as, i) ==
    SetMin({j \in (i + 1)..Len(as) :
               RefIsClose(as[j]) /\ RefDepth(as, j) = RefDepth(as, i) + 1})

\* every closing closes an open block, every block is closed, and every
\* field stands inside a block
RefBalanced(as) ==
    /\ \A i \in 1..(Len(as) + 1) : RefDepth(as, i) >= 0
    /\ RefDepth(as, Len(as) + 1) = 0
    /\ \A i \in 1..Len(as) : RefIsField(as[i]) => RefDepth(as, i) >= 1

\* the field that a field atom declares: ` t n = k;`
RefField(a) ==
    [type  |-> [kind |-> "Identifier", val |-> <<a[2]>>],
     name  |-> <<a[4]>>,
     index |-> DigitVal(a[8])]

\* the fields among the atoms lo..hi in front of which the depth is d
RECURSIVE RefFields(_, _, _, _)
RefFields(as, lo, hi, d) ==
    IF lo > hi THEN <<>>
    ELSE (IF RefIsField(as[lo]) /\ RefDepth(as, lo) = d
          THEN <<RefField(as[lo])>> ELSE <<>>)
             \o RefFields(as, lo + 1, hi, d)

\* the messages opened among the atoms lo..hi in front of which the depth is
\* d, each with the fields and the messages that stand directly in its block
RECURSIVE RefMessages(_, _, _, _)
RefMessages(as, lo, hi, d) ==
    IF lo > hi THEN <<>>
    ELSE (IF RefIsOpen(as[lo]) /\ RefDepth(as, lo) = d
          THEN <<[name     |-> <<as[lo][10]>>,
                  fields   |-> RefFields(as, lo + 1, RefCloseOf(as, lo) - 1,
                                         d + 1),
                  messages |-> RefMessages(as, lo + 1,
                                           RefCloseOf(as, lo) - 1, d + 1)]>>
          ELSE <<>>)
             \o RefMessages(as, lo + 1, hi, d)

C23_UnclosedMessage ==
    (/\ pc = "returned"
     /\ IsMessageDoc
     /\ RefDepth(MessageAtoms, Len(MessageAtoms) + 1) > 0) =>
        result.kind = "err"

\* every read of the source succeeds
ReadsWithoutFailure == \A i \in 1..Len(input) : input[i] # "EIO"

\* C24: scan_file returns a Document only at the end of the input: the call
\* of next that ended the top-level loop found nothing but whitespace, so no
\* byte after an unrecognized byte, a lone slash or a string literal that is
\* not closed is left unread or dropped.
C24_WholeInputConsumed ==
    (op = "end" /\ result.kind = "ok" /\ ReadsWithoutFailure) =>
        /\ RefBlank(pre) = <<>>
        /\ Pending = <<>>

\* the Document of BaseDoc
BaseExpected ==
    [syntax   |-> "Proto3",
     package  |-> <<<<"a">>, <<"b">>>>,
     imports  |-> <<[type |-> "Public", path |-> <<"p">>]>>,
     options  |-> <<[name |-> <<"o">>, value |-> <<"v">>]>>,
     messages |-> <<[name     |-> <<"M">>,
                     fields   |-> <<[type  |-> FieldType("Identifier", <<"a">>),
                                     name  |-> <<"x">>,
                                     index |-> 1],
                                    [type  |-> FieldType("Identifier", <<"b">>),
                                     name  |-> <<"y">>,
                                     index |-> 2]>>,
                     messages |-> <<>>]>>,
     services |-> <<>>]

\* scan_file returns the Document of BaseDoc for BaseDoc
BaseParses ==
    (pc = "returned" /\ input = BaseDoc) =>
        result = [kind |-> "ok", val |-> BaseExpected]

\* C25: a comment between two tokens of an accepted document does not change
\* the parse result: for the document BaseDoc with one comment between two of
\* its tokens scan_file returns the Document it returns for BaseDoc.
C25_CommentsTransparent ==
    (pc = "returned" /\ input \in CommentedInputs) =>
        result = [kind |-> "ok", val |-> BaseExpected]

\* C26: once next has returned end-of-sequence, the next call of next on the
\* same scanner returns end-of-sequence too, and so does every later one.
C26_EndIsFinal ==
    [][(op = "next" /\ ret = NoneTok /\ op' = "next") => ret' = NoneTok]_vars

\* the number of every field of the messages ms, and of the messages nested
\* in them, lies in 1..65535
RECURSIVE NumbersInRange(_)
NumbersInRange(ms) ==
    \/ ms = <<>>
    \/ /\ \A i \in 1..Len(Head(ms).fields) :
              Head(ms).fields[i].index \in 1..65535
       /\ NumbersInRange(Head(ms).messages)
       /\ NumbersInRange(Tail(ms))

\* the input is a document of NumberInputs; the text of its field number
IsNumberDoc ==
    /\ Len(input) >= Len(NumberHead) + Len(NumberTail)
    /\ RefStarts(input, NumberHead)
    /\ Drop(input, Len(input) - Len(NumberTail)) = NumberTail

NumberText == SubSeq(input, Len(NumberHead) + 1, Len(input) - Len(NumberTail))

\* the digits ds are 0, start with a zero, or are a number above 65535
RefNumberOutOfRange(ds) ==
    /\ ds # <<>>
    /\ \A i \in 1..Len(ds) : ds[i] \in Digits
    /\ \/ ds[1] = "0"
       \/ Len(ds) > 5
       \/ RefDecimal(ds) > 65535

\* C27: in a Document that scan_file returns every field number lies in
\* 1..65535; a field number written as 0, with a leading zero, or greater
\* than 65535 makes scan_file return an error value.
C27_FieldNumberRange ==
    /\ result.kind = "ok" => NumbersInRange(result.val.messages)
    /\ (/\ pc \in {"returned", "panicked"}
        /\ IsNumberDoc
        /\ RefNumberOutOfRange(NumberText)) => result.kind = "err"

\* the bytes that are left are the end of the input
PendingIsSuffix ==
    /\ Len(Pending) <= Len(input)
    /\ Pending = Drop(input, Len(input) - Len(Pending))

\* peek has returned the first of the bytes that were left, or None when none
\* was left, and has consumed nothing
PeekAgrees ==
    /\ ret.val = (IF pre = <<>> THEN <<>> ELSE <<pre[1]>>)
    /\ Pending = pre

\* pop has consumed the first of the bytes that were left and returned
\* Some(()), or has returned None when none was left
PopAgrees ==
    /\ Pending = (IF pre = <<>> THEN <<>> ELSE Tail(pre))
    /\ ret.val = (pre # <<>>)

CursorAgrees ==
    /\ PendingIsSuffix
    /\ op = "peek" => PeekAgrees
    /\ op = "pop" => PopAgrees

\* C28: peek never consumes, and a peek that follows a peek returns the same
\* value; pop consumes exactly one byte, and none at the end of input; so the
\* values that peek and pop give are the bytes of the input in order, and
\* then end-of-input, which is None and no byte value, 0x00 included.
C28_PeekAndPop ==
    /\ []CursorAgrees
    /\ [][(op = "peek" /\ op' = "peek") => ret' = ret]_vars

C28_Witness ==
    /\ op = "peek"
    /\ pre = <<"NUL", "a">>
    /\ input = <<"a", "NUL", "a">>
    /\ ret.val = <<"NUL">>
    /\ buffer = <<"NUL">>
    /\ reader = <<"a">>

\* C29: after any sequence of calls of peek, pop, next and expect the
\* lookahead buffer of the Scanner holds at most one byte, whatever the
\* length of the input.
C29_LookaheadOneByte == Len(buffer) <= 1

C29_Witness ==
    /\ op = "next"
    /\ input = ExampleDoc
    /\ ret.kind = "FullIdentifier"
    /\ buffer = <<";">>
    /\ Len(reader) > 20

\* a call of next that has returned a token has consumed at least one byte
TokenConsumes ==
    (pc = "scanner" /\ op = "next" /\ IsToken(ret)) => Len(Pending) < Len(pre)

\* an iteration of the top-level loop of scan_file after which the loop goes
\* on has consumed at least one byte
LoopConsumes ==
    (pc = "toplevel" /\ pc' = "toplevel") => Len(Pending') < Len(Pending)

\* scan_file is running; scan_file has ended, by returning or by unwinding
ScanFileRunning == pc \in {"main", "toplevel"}

ScanFileEnded == pc \in {"returned", "panicked"}

\* C30: every call of next that returns a token has consumed at least one
\* input byte, every iteration of the loop of scan_file that is followed by
\* another has consumed at least one byte, and scan_file on a finite input
\* ends.
C30_Termination ==
    /\ []TokenConsumes
    /\ [][LoopConsumes]_vars
    /\ ScanFileRunning ~> ScanFileEnded

C30_Witness ==
    /\ pc = "returned"
    /\ op = "end"
    /\ input = ExampleDoc
    /\ Pending = <<>>
    /\ result.kind = "ok"

====
